---- MODULE Spec2Model ----
(***************************************************************************)
(* Model of the goroutine lowering pass of compiler/goroutine-lowering.go  *)
(* (markAsyncFunctions, lowerMakeGoroutineCalls, lowerCoroutines).          *)
(*                                                                         *)
(* The LLVM module is a map from function names to functions; a function   *)
(* is a return type and a sequence of basic blocks; a block is a label and *)
(* a sequence of instructions.  The pass is a sequence of phases, each of  *)
(* them one action that rewrites the module the way the phase's loop does. *)
(* Spec is the pass; ExecSpec is the pass followed by a run of the module  *)
(* it produced, under a scheduler that resumes activated tasks.  AgainSpec *)
(* runs the pass a second time on its own output; SpawnSpec, RetvalSpec    *)
(* and CallGraphSpec run it on further families of input modules, and      *)
(* TailSpec runs the lowered program of modules with tail calls under a    *)
(* fair scheduler.  TaskSpec is the task package of the asyncify           *)
(* scheduler (start, Pause, Resume), which shares no state with the pass.  *)
(***************************************************************************)
EXTENDS Integers, Sequences, FiniteSets, TLC

VARIABLES
    fns,               \* the module: function name -> [ret, blocks]
    hasYield,          \* mod.NamedFunction("runtime.yield") is not nil
    target,            \* "wasm" (GOOS js, wasm triple), "avr" (GOARCH avr), "other"
    misuse,            \* a use of a function that is not a call: [fn, kind]
    entry,             \* the instructions of the function that calls runtime.callMain
    pc,                \* position of the pass
    worklist,          \* markAsyncFunctions: worklist
    asyncFuncs,        \* markAsyncFunctions: asyncFuncs (its key set)
    asyncList,         \* markAsyncFunctions: asyncList
    needsScheduler,    \* markAsyncFunctions: needsScheduler
    nonReturning,      \* markAsyncFunctions: nonReturning
    parentNotRequired, \* markAsyncFunctions: parentNotRequired
    frames,            \* functions whose asyncFunc frame has a taskHandle
    err,               \* "" or the error / panic the pass ended with
    input              \* the module as it was handed to the pass

\* The lowered program at run time.
VARIABLES
    stack,             \* the activations of the machine stack, the running one last
    tasks,             \* the coroutine frames, by task handle
    runq,              \* the run queue of the scheduler: the activated tasks
    waiting            \* the tasks registered for a wakeup that is still to come

execVars == <<stack, tasks, runq, waiting>>

\* The task package of the asyncify scheduler.
VARIABLES
    currentTask,       \* currentTask: the running task, Nil in the scheduler
    ctl,               \* the nesting of the code that runs: scheduler, start, Resume, tasks
    tstate             \* the tasks: "unused", "running", "paused", "done"

taskVars == <<currentTask, ctl, tstate>>

vars == <<fns, hasYield, target, misuse, entry, pc, worklist, asyncFuncs,
          asyncList, needsScheduler, nonReturning, parentNotRequired, frames, err,
          input, stack, tasks, runq, waiting, currentTask, ctl, tstate>>

(***************************************************************************)
(* Bounds of the model.                                                    *)
(***************************************************************************)
\* the largest number of statements in the body of the function under study
MaxStmts == 2
\* the largest number of coroutine frames alive at a time
MaxTasks == 3
\* the largest number of activations on the machine stack
MaxDepth == 4

(***************************************************************************)
(* Values and instructions.                                                *)
(***************************************************************************)
\* An SSA value: the result of instruction n of kind k, or a constant.
V(k, n) == [k |-> k, n |-> n]
NoVal == V("none", 0)
Undef == V("undef", 0)
\* the trailing parameter of a function, named parentHandle
ParentParam == V("parentHandle", 0)
\* asyncFunc.taskHandle: the result of llvm.coro.begin
TaskHandle == V("taskHandle", 0)

\* An instruction.  op is the opcode or, for a call of a runtime function or
\* an intrinsic, the callee's name; "call" is a direct call of the function
\* callee, whose trailing operand (the coroutine handle) is hdl.
Ins(op, callee, id, arg, hdl) ==
    [op |-> op, callee |-> callee, id |-> id, arg |-> arg, hdl |-> hdl,
     tgt |-> <<>>, ty |-> "", rule |-> ""]
Op(op, id) == Ins(op, "", id, NoVal, NoVal)
OpArg(op, id, arg) == Ins(op, "", id, arg, NoVal)
Typed(op, id, ty) == [Op(op, id) EXCEPT !.ty = ty]
Branch(op, arg, tgt) == [OpArg(op, 0, arg) EXCEPT !.tgt = tgt]

Block(label, ins) == [label |-> label, ins |-> ins]
EntryLabel == <<"entry", 0>>
CleanupLabel == <<"task.cleanup", 0>>
SuspendLabel == <<"task.suspend", 0>>

Types == {"void", "i32"}
RetOf(ty, v) == OpArg("ret", 0, IF ty = "void" THEN V("void", 0) ELSE v)

(***************************************************************************)
(* The input programs.  A body is written as a sequence of statements,     *)
(* each of which stands for the instructions the IR generator emits.       *)
(***************************************************************************)
St(s, c) == [s |-> s, c |-> c]

\* Y: a yield without a wakeup; W: register a wakeup on getCoroutine(), then
\* yield; O: some other instruction; C: call c, result unused (or returned);
\* U: call c and use the result; G: go c().  Three go statements that lack the
\* shape IR construction gives them: Gop, the operand of makeGoroutine is not a
\* constant ptrtoint of a function; Gcast, the result of makeGoroutine has no
\* inttoptr use; Gcall, the inttoptr has no call use.
Expand(st, id) ==
    CASE st.s = "Y" -> <<Op("yield", id)>>
      [] st.s = "W" -> <<Op("getCoroutine", id),
                         OpArg("use", id, V("getCoroutine", id)),
                         Op("yield", id)>>
      [] st.s = "O" -> <<OpArg("use", id, V("const", 0))>>
      [] st.s = "C" -> <<Ins("call", st.c, id, NoVal, Undef)>>
      [] st.s = "U" -> <<Ins("call", st.c, id, NoVal, Undef),
                         OpArg("use", id, V("call", id))>>
      [] st.s = "G" -> <<Ins("makeGoroutine", st.c, id, NoVal, NoVal),
                         OpArg("inttoptr", id, V("makeGoroutine", id)),
                         Ins("icall", "", id, V("inttoptr", id), Undef)>>
      [] st.s = "Gop" -> <<Ins("makeGoroutine", "", id, V("param", 0), NoVal),
                           OpArg("inttoptr", id, V("makeGoroutine", id)),
                           Ins("icall", "", id, V("inttoptr", id), Undef)>>
      [] st.s = "Gcast" -> <<Ins("makeGoroutine", st.c, id, NoVal, NoVal)>>
      [] st.s = "Gcall" -> <<Ins("makeGoroutine", st.c, id, NoVal, NoVal),
                             OpArg("inttoptr", id, V("makeGoroutine", id))>>

RECURSIVE ExpandAll(_, _, _)
ExpandAll(sts, i, base) ==
    IF i > Len(sts) THEN <<>>
    ELSE Expand(sts[i], base + i) \o ExpandAll(sts, i + 1, base)

\* The terminator of an arm: a return, the return of the last call's result,
\* or a branch back to the entry block.
Term(t, ty, sts, base) ==
    CASE t = "ret" -> RetOf(ty, V("const", 0))
      [] t = "retcall" -> RetOf(ty, V("call", base + Len(sts)))
      [] t = "loop" -> Branch("br", NoVal, <<EntryLabel>>)

Arm(ty, sts, t, base) == ExpandAll(sts, 1, base) \o <<Term(t, ty, sts, base)>>

\* The shape of a function body: one block, or an entry block that branches to
\* two arms.
Shape(k, s1, t1, s2, t2) == [k |-> k, s1 |-> s1, t1 |-> t1, s2 |-> s2, t2 |-> t2]

Body(ty, sh) ==
    IF sh.k = 1
    THEN [ret |-> ty, blocks |-> <<Block(EntryLabel, Arm(ty, sh.s1, sh.t1, 0))>>]
    ELSE [ret |-> ty,
          blocks |-> <<Block(EntryLabel,
                             <<Branch("br", V("const", 0), << <<"arm", 1>>, <<"arm", 2>> >>)>>),
                       Block(<<"arm", 1>>, Arm(ty, sh.s1, sh.t1, 10)),
                       Block(<<"arm", 2>>, Arm(ty, sh.s2, sh.t2, 20))>>]

SeqUpTo(S, n) == UNION {[1..k -> S] : k \in 0..n}

\* the statements of f, which calls g
FStmts == {St("Y", ""), St("W", ""), St("O", ""), St("C", "g"), St("U", "g")}
\* an arm of a two-armed f has at most one statement
ArmStmts == {<<>>} \cup {<<s>> : s \in FStmts}

FShapes(n) ==
    {Shape(1, s, t, <<>>, "ret") : s \in SeqUpTo(FStmts, n), t \in {"ret", "retcall", "loop"}}
    \cup
    {Shape(2, s1, t1, s2, t2) : s1 \in ArmStmts, t1 \in {"ret", "retcall"},
                                s2 \in ArmStmts, t2 \in {"ret", "loop"}}

\* a statement sequence is well typed when a used result is not void
StmtsOk(sts, calleeRet) ==
    \A i \in 1..Len(sts) : sts[i].s = "U" => calleeRet # "void"

\* a returned call result has the function's return type
TermOk(t, ty, sts, calleeRet) ==
    t = "retcall" =>
        /\ Len(sts) > 0
        /\ sts[Len(sts)].s = "C"
        /\ ty # "void"
        /\ calleeRet = ty

ShapeOk(sh, ty, calleeRet) ==
    /\ StmtsOk(sh.s1, calleeRet) /\ TermOk(sh.t1, ty, sh.s1, calleeRet)
    /\ StmtsOk(sh.s2, calleeRet) /\ TermOk(sh.t2, ty, sh.s2, calleeRet)

\* the smaller bodies, which are run on every target
Small(sh) == sh.k = 1 /\ Len(sh.s1) <= 1

\* the callee g: not async, blocking forever, blocking with a wakeup, or
\* calling back into f
GShapes ==
    {<<"void", <<>>>>, <<"void", <<St("Y", "")>>>>, <<"void", <<St("W", "")>>>>,
     <<"void", <<St("W", ""), St("O", "")>>>>, <<"void", <<St("C", "f")>>>>,
     <<"i32", <<>>>>, <<"i32", <<St("Y", "")>>>>, <<"i32", <<St("W", "")>>>>}

\* main.main: go f(), or f()
MainMenu == {<<St("G", "f")>>, <<St("C", "f")>>}
\* main functions with a go statement that lacks the shape
BadSpawnMenu == {<<St("Gop", "f")>>, <<St("Gcast", "f")>>, <<St("Gcall", "f")>>}

\* a function named resume, which calls f
ResumeBody == Body("void", Shape(1, <<St("C", "f")>>, "ret", <<>>, "ret"))

\* uses of a function that are not calls of it
MisuseKinds == {"store", "bitcast0", "bitcast", "arg", "ptrtoint"}
NoMisuse == [fn |-> "", kind |-> "none"]
\* the error the pass returns (or the panic it ends with), and the function it names
Error(msg, f) == [msg |-> msg, fn |-> f]
NoErr == Error("", "")
Misuses == {NoMisuse} \cup {[fn |-> f, kind |-> k] : f \in {"f", "g"}, k \in MisuseKinds}

AllIns(fn) == UNION {{fn.blocks[b].ins[i] : i \in 1..Len(fn.blocks[b].ins)} : b \in 1..Len(fn.blocks)}
HasOp(fn, op) == \E x \in AllIns(fn) : x.op = op
ModuleCallsYield(m) == \E f \in DOMAIN m : HasOp(m[f], "yield")

Module(g, fty, sh, ms, r) ==
    LET base == [main |-> Body("void", Shape(1, ms, "ret", <<>>, "ret")),
                 f |-> Body(fty, sh),
                 g |-> Body(g[1], Shape(1, g[2], "ret", <<>>, "ret"))]
    IN  IF r THEN [n \in {"main", "f", "g", "resume"} |->
                        IF n = "resume" THEN ResumeBody ELSE base[n]]
        ELSE base

\* a task handle that holds no coroutine frame
NoTask == [state |-> "free", fn |-> "", b |-> 0, parent |-> NoVal, await |-> 0,
           reactivated |-> FALSE]

\* The programs the pass is run on: the cooperative-only target runs the whole
\* pass on every module; the other targets, modules without runtime.yield,
\* modules with a function named resume and modules that use a function as a
\* value are the smaller modules.
\* the module handed to the pass, its main function drawn from the menu
ModuleInit(menu, small) ==
    \E g \in GShapes, fty \in Types, sh \in FShapes(MaxStmts), ms \in menu,
       t \in {"wasm", "avr", "other"}, y \in BOOLEAN, r \in BOOLEAN, mis \in Misuses :
        /\ ShapeOk(sh, fty, g[1])
        /\ (t # "wasm" \/ ~y \/ r \/ mis # NoMisuse) => Small(sh)
        /\ (r \/ mis # NoMisuse) => (t = "wasm" /\ y)
        /\ ~(r /\ mis # NoMisuse)
        /\ small => (Small(sh) /\ ~r /\ mis = NoMisuse)
        /\ ModuleCallsYield(Module(g, fty, sh, ms, r)) => y
        /\ fns = Module(g, fty, sh, ms, r)
        /\ input = Module(g, fty, sh, ms, r)
        /\ target = t
        /\ hasYield = y
        /\ misuse = mis

\* the locals of the pass and the machine before the pass has run
PassInit ==
    /\ entry = <<Op("callMain", 0)>>
    /\ pc = "start"
    /\ worklist = <<>>
    /\ asyncFuncs = {}
    /\ asyncList = <<>>
    /\ needsScheduler = FALSE
    /\ nonReturning = {}
    /\ parentNotRequired = {}
    /\ frames = {}
    /\ err = NoErr
    /\ stack = <<>>
    /\ tasks = [n \in 1..MaxTasks |-> NoTask]
    /\ runq = <<>>
    /\ waiting = {}
    /\ currentTask = 0
    /\ ctl = <<>>
    /\ tstate = [n \in 1..MaxTasks |-> "unused"]

Init == ModuleInit(MainMenu, FALSE) /\ PassInit

(***************************************************************************)
(* Helpers over the module.                                                *)
(***************************************************************************)
RECURSIVE Flatten(_)
Flatten(ss) == IF Len(ss) = 0 THEN <<>> ELSE Head(ss) \o Flatten(Tail(ss))

\* the instructions of a function, block after block
InsSeq(fn) == Flatten([b \in 1..Len(fn.blocks) |-> fn.blocks[b].ins])

\* a function with the instructions of every block rewritten by G
MapBlocks(fn, G(_)) ==
    [ret |-> fn.ret,
     blocks |-> [b \in 1..Len(fn.blocks) |->
                    Block(fn.blocks[b].label, G(fn.blocks[b].ins))]]

\* llvm.Value.ReplaceAllUsesWith: the operands equal to old become new
Rauw1(x, old, new) ==
    [x EXCEPT !.arg = IF @ = old THEN new ELSE @,
              !.hdl = IF @ = old THEN new ELSE @]
Rauw(ins, old, new) == [i \in 1..Len(ins) |-> Rauw1(ins[i], old, new)]

\* the value an instruction defines
ValOf(x) == V(x.op, x.id)
IsUsed(ins, v) == \E i \in 1..Len(ins) : ins[i].arg = v \/ ins[i].hdl = v

\* the order in which the functions of the module are visited
FnOrder == <<"main", "f", "g", "h", "resume">>
FnSeq(m) == SelectSeq(FnOrder, LAMBDA n : n \in DOMAIN m)

(***************************************************************************)
(* getUses(f): the uses of a function, as the worklist sees them.          *)
(***************************************************************************)
Use(kind, parent) == [kind |-> kind, parent |-> parent]

\* the uses of f that are calls of yield itself and no others
CallUsesYieldOnly(m, p, f) ==
    IF f # "yield" THEN <<>>
    ELSE LET calls == SelectSeq(InsSeq(m[p]), LAMBDA x : x.op = "yield")
         IN  [i \in 1..Len(calls) |-> Use("call", p)]

\* the call instructions of p whose callee is f
CallUses(m, p, f) ==
    LET calls == SelectSeq(InsSeq(m[p]),
                           LAMBDA x : IF f = "yield" THEN x.op = "yield"
                                      ELSE x.op = "call" /\ x.callee = f)
    IN  [i \in 1..Len(calls) |-> Use("call", p)]

IsSpawned(m, f) ==
    \E p \in DOMAIN m : \E x \in AllIns(m[p]) : x.op = "makeGoroutine" /\ x.callee = f

\* the uses of f with a go statement counted as a call by the spawner
getUsesSpawnIsCall(m, mis, f) ==
    Flatten([i \in 1..Len(FnSeq(m)) |->
                LET p == FnSeq(m)[i]
                    uses == SelectSeq(InsSeq(m[p]),
                                      LAMBDA x : \/ (f = "yield" /\ x.op = "yield")
                                                 \/ (x.op \in {"call", "makeGoroutine"} /\ x.callee = f))
                IN  [j \in 1..Len(uses) |-> Use("call", p)]])

\* the uses of f that are calls of f or go statements, and no others
getUsesCallsAndSpawns(m, mis, f) ==
    Flatten([i \in 1..Len(FnSeq(m)) |-> CallUses(m, FnSeq(m)[i], f)])
    \o (IF IsSpawned(m, f) THEN <<Use("ptrtoint", "")>> ELSE <<>>)

getUses(m, mis, f) ==
    Flatten([i \in 1..Len(FnSeq(m)) |-> CallUses(m, FnSeq(m)[i], f)])
    \o (IF IsSpawned(m, f) \/ (mis.fn = f /\ mis.kind = "ptrtoint")
        THEN <<Use(IF mis.fn = f /\ mis.kind = "ptrtoint" THEN "ptrtoint_other" ELSE "ptrtoint", "")>>
        ELSE <<>>)
    \o (IF mis.fn = f /\ mis.kind \in {"store", "bitcast0", "bitcast", "arg"}
        THEN <<Use(mis.kind, "main")>>
        ELSE <<>>)

(***************************************************************************)
(* lowerMakeGoroutineCalls                                                 *)
(***************************************************************************)
\* the makeGoroutine / inttoptr / call pattern becomes a direct call
\* the go statement that starts with the makeGoroutine call ins[1]: "ok", or
\* the use that is not there (the result of makeGoroutine must have the one
\* inttoptr use, the inttoptr the one call use)
SpawnShape(ins) ==
    IF Len(ins) < 2 \/ ins[2].op # "inttoptr" \/ ins[2].arg # V("makeGoroutine", ins[1].id)
    THEN "inttoptr"
    ELSE IF Len(ins) < 3 \/ ins[3].op # "icall" \/ ins[3].arg # V("inttoptr", ins[1].id)
    THEN "call"
    ELSE "ok"

\* the shapes of the go statements of the module
SpawnShapes(m) ==
    UNION {UNION {{SpawnShape(SubSeq(m[n].blocks[b].ins, i, Len(m[n].blocks[b].ins))) :
                      i \in {j \in 1..Len(m[n].blocks[b].ins) :
                                m[n].blocks[b].ins[j].op = "makeGoroutine"}} :
                  b \in 1..Len(m[n].blocks)} :
           n \in DOMAIN m}

\* the error lowerMakeGoroutineCalls returns (the modules of the model hold at
\* most one go statement, so the order of the uses plays no part)
SpawnShapeError(m) ==
    IF "inttoptr" \in SpawnShapes(m)
    THEN Error("expected exactly 1 inttoptr use of runtime.makeGoroutine", "")
    ELSE IF "call" \in SpawnShapes(m)
    THEN Error("expected exactly 1 call use of runtime.makeGoroutine bitcast", "")
    ELSE NoErr

\* a makeGoroutine call whose operand is not a constant ptrtoint of a function
OperandNotFunction(m) ==
    \E n \in DOMAIN m : \E x \in AllIns(m[n]) : x.op = "makeGoroutine" /\ x.callee = ""

RECURSIVE LowerGoSeq(_, _)
LowerGoSeq(pnr, ins) ==
    IF Len(ins) = 0 THEN <<>>
    ELSE IF Head(ins).op = "makeGoroutine" /\ SpawnShape(ins) # "ok"
    THEN ins   \* return errors.New(...)
    ELSE IF Head(ins).op = "makeGoroutine"
    THEN LET go == Head(ins)
             rest == Tail(Tail(Tail(ins)))
         IN  (IF go.callee \in pnr
              THEN <<Ins("call", go.callee, go.id, NoVal, V("null", 0))>>
              ELSE <<Op("getFakeCoroutine", go.id),
                     Ins("call", go.callee, go.id, NoVal, V("getFakeCoroutine", go.id))>>)
             \o LowerGoSeq(pnr, rest)
    ELSE <<Head(ins)>> \o LowerGoSeq(pnr, Tail(ins))

\* the lowering that gives every started goroutine a null parent handle
lowerMakeGoroutineCallsNull(m, pnr) ==
    [n \in DOMAIN m |-> MapBlocks(m[n], LAMBDA ins : LowerGoSeq(DOMAIN m, ins))]

lowerMakeGoroutineCalls(m, pnr) ==
    [n \in DOMAIN m |-> MapBlocks(m[n], LAMBDA ins : LowerGoSeq(pnr, ins))]

\* ptrtointIn.Operand(0) of an operand that is not a constant expression (lines
\* 912-913) reads an operand the value may not have: the build either stops
\* there or goes on with whatever value it got
Crash == Error("invalid operand of the makeGoroutine operand", "")
CrashChoices(m) == IF OperandNotFunction(m) THEN BOOLEAN ELSE {FALSE}

\* the module and the error lowerMakeGoroutineCalls leaves
LowerGo(m, pnr, crash) ==
    IF crash THEN [m |-> m, err |-> Crash]
    ELSE [m |-> lowerMakeGoroutineCalls(m, pnr), err |-> SpawnShapeError(m)]

(***************************************************************************)
(* markAsyncFunctions: the worklist (lines 235-303)                        *)
(***************************************************************************)
Start ==
    /\ UNCHANGED <<execVars, input, taskVars>>
    /\ pc = "start"
    /\ IF hasYield
       THEN /\ worklist' = <<"yield">>
            /\ pc' = "worklist"
            /\ fns' = fns
            /\ err' = err
       ELSE \* no blocking operations: return false, lowerMakeGoroutineCalls(nil)
            \E crash \in CrashChoices(fns) :
                LET r == LowerGo(fns, {}, crash)
                IN  /\ worklist' = <<>>
                    /\ fns' = r.m
                    /\ err' = r.err
                    /\ pc' = IF r.err = NoErr THEN "callMain" ELSE "done"
    /\ UNCHANGED <<hasYield, target, misuse, entry, asyncFuncs, asyncList,
                   needsScheduler, nonReturning, parentNotRequired, frames>>

\* the loop over getUses(f): the parents pushed, or the error returned
RECURSIVE ScanUses(_, _, _, _)
ScanUses(f, uses, i, wl) ==
    IF i > Len(uses) THEN [err |-> NoErr, wl |-> wl]
    ELSE LET use == uses[i] IN
         CASE use.kind = "ptrtoint" -> ScanUses(f, uses, i + 1, wl)
           [] use.kind = "ptrtoint_other" ->
                [err |-> Error("incorrectly used in ptrtoint", f), wl |-> wl]
           [] use.kind = "bitcast0" -> ScanUses(f, uses, i + 1, wl)
           [] use.kind \in {"bitcast", "store"} ->
                [err |-> Error("used as function pointer", f), wl |-> wl]
           [] use.kind = "arg" ->
                [err |-> Error("used as function pointer in", f), wl |-> wl]
           [] OTHER -> ScanUses(f, uses, i + 1, Append(wl, use.parent))

\* only a function named resume is passed over
SkippedResumeOnly(f, async) == f = "resume"

\* the function popped from the worklist is passed over: it was already
\* processed, or it is named resume
Skipped(f, async) == f \in async \/ f = "resume"

WorklistStep ==
    /\ UNCHANGED <<execVars, input, taskVars>>
    /\ pc = "worklist"
    /\ Len(worklist) # 0
    /\ LET f == worklist[Len(worklist)]
           rest == SubSeq(worklist, 1, Len(worklist) - 1)
       IN  IF Skipped(f, asyncFuncs)
           THEN /\ worklist' = rest
                /\ UNCHANGED <<asyncFuncs, asyncList, pc, err>>
           ELSE LET r == ScanUses(f, getUses(fns, misuse, f), 1, rest)
                IN  /\ asyncFuncs' = asyncFuncs \cup {f}
                    /\ asyncList' = Append(asyncList, f)
                    /\ worklist' = r.wl
                    /\ err' = r.err
                    /\ pc' = IF r.err = NoErr THEN "worklist" ELSE "done"
    /\ UNCHANGED <<fns, hasYield, target, misuse, entry, needsScheduler,
                   nonReturning, parentNotRequired, frames>>

(***************************************************************************)
(* markAsyncFunctions: is a scheduler needed (lines 305-352)               *)
(***************************************************************************)
\* the AVR branch: getCoroutine becomes undef, yield is erased, time.Sleep
\* becomes avrSleep
AvrIns(ins) ==
    LET gone == SelectSeq(ins, LAMBDA x : x.op \notin {"getCoroutine", "yield"})
    IN  [i \in 1..Len(gone) |->
            LET x == gone[i]
                y == IF x.arg.k = "getCoroutine" THEN [x EXCEPT !.arg = Undef] ELSE x
                z == IF y.hdl.k = "getCoroutine" THEN [y EXCEPT !.hdl = Undef] ELSE y
            IN  IF z.op = "call" /\ z.callee = "time.Sleep"
                THEN Op("avrSleep", z.id)
                ELSE z]

SpawnsAsync ==
    \E p \in DOMAIN fns : \E x \in AllIns(fns[p]) :
        x.op = "makeGoroutine" /\ x.callee \in asyncFuncs

\* the decision without the AVR case
NeedsSchedulerNoAvr(t, spawns) == t = "wasm" \/ spawns

\* JavaScript always needs a scheduler; AVR never has one; otherwise only use
\* a scheduler when an async goroutine is started
NeedsScheduler(t, spawns) ==
    CASE t = "wasm" -> TRUE
      [] t = "avr" -> FALSE
      [] OTHER -> spawns

DecideScheduler ==
    /\ UNCHANGED <<execVars, input, taskVars>>
    /\ pc = "worklist"
    /\ Len(worklist) = 0
    /\ LET needs == NeedsScheduler(target, SpawnsAsync)
           m == IF target = "avr"
                THEN [n \in DOMAIN fns |-> MapBlocks(fns[n], AvrIns)]
                ELSE fns
       IN  IF target = "other" /\ OperandNotFunction(fns)
           THEN \* panic("expected const ptrtoint operand of runtime.makeGoroutine")
                /\ err' = Error("expected const ptrtoint operand of runtime.makeGoroutine", "")
                /\ pc' = "done"
                /\ UNCHANGED <<fns, needsScheduler>>
           ELSE /\ needsScheduler' = needs
                /\ IF needs
                   THEN /\ fns' = m
                        /\ pc' = "nonReturning"
                        /\ err' = err
                   ELSE \* return false, lowerMakeGoroutineCalls(nil)
                        \E crash \in CrashChoices(m) :
                            LET r == LowerGo(m, {}, crash)
                            IN  /\ fns' = r.m
                                /\ err' = r.err
                                /\ pc' = IF r.err = NoErr THEN "callMain" ELSE "done"
    /\ UNCHANGED <<hasYield, target, misuse, entry, worklist, asyncFuncs, asyncList,
                   nonReturning, parentNotRequired, frames>>

(***************************************************************************)
(* markAsyncFunctions: replace indefinitely blocking yields (354-423)      *)
(***************************************************************************)
\* the index of the first instruction with one of the opcodes, or 0
FirstOp(ins, ops) ==
    IF \E i \in 1..Len(ins) : ins[i].op \in ops
    THEN CHOOSE i \in 1..Len(ins) :
            /\ ins[i].op \in ops
            /\ \A j \in 1..(i - 1) : ins[j].op \notin ops
    ELSE 0

CallsAsyncNotYield(fn) == \E x \in AllIns(fn) : x.op = "call" /\ x.callee \in asyncFuncs

\* calls yield without registering for a wakeup
IsIndefiniteBlocker(fn) ==
    /\ HasOp(fn, "yield")
    /\ ~HasOp(fn, "getCoroutine")
    /\ ~CallsAsyncNotYield(fn)

\* noret and a return are injected before the first yield of the block, and
\* the yield and everything after it is deleted
BreakAtYield(ty, ins) ==
    LET i == FirstOp(ins, {"yield"})
    IN  IF i = 0 THEN ins
        ELSE SubSeq(ins, 1, i - 1) \o <<Op("noret", ins[i].id), RetOf(ty, Undef)>>

ReplaceIndefiniteBlockers(m, f) ==
    IF IsIndefiniteBlocker(m[f])
    THEN MapBlocks(m[f], LAMBDA ins : BreakAtYield(m[f].ret, ins))
    ELSE m[f]

\* the functions of asyncList other than yield
AsyncBodies == {f \in asyncFuncs : f # "yield"}

MarkNonReturning ==
    /\ UNCHANGED <<execVars, input, taskVars>>
    /\ pc = "nonReturning"
    /\ nonReturning' = {f \in AsyncBodies : IsIndefiniteBlocker(fns[f])}
    /\ fns' = [n \in DOMAIN fns |->
                IF n \in AsyncBodies THEN ReplaceIndefiniteBlockers(fns, n) ELSE fns[n]]
    /\ pc' = "rewriteCalls"
    /\ UNCHANGED <<hasYield, target, misuse, entry, worklist, asyncFuncs, asyncList,
                   needsScheduler, parentNotRequired, frames, err>>

(***************************************************************************)
(* markAsyncFunctions: convert direct calls into an async call followed by *)
(* a yield (425-549)                                                       *)
(***************************************************************************)
\* case nonReturning[callee]: undef handle, noret, return, the rest deleted
RewriteNoReturn(fty, inst) ==
    <<[inst EXCEPT !.hdl = Undef, !.rule = "noreturn"],
      Op("noret", inst.id), RetOf(fty, Undef)>>

\* the conditions without the comparison of the return types
IsTailCallAnyType(fty, cty, inst, next) ==
    /\ next.op = "ret"
    /\ (cty = "void" \/ next.arg = V("call", inst.id))

\* the conditions of the async tail call optimization
IsTailCall(fty, cty, inst, next) ==
    /\ next.op = "ret"
    /\ cty = fty
    /\ (cty = "void" \/ next.arg = V("call", inst.id))

\* async tail call optimization: pass the parent handle, then yield and noret
RewriteTailCall(inst) ==
    <<Op("getParentHandle", inst.id),
      [inst EXCEPT !.hdl = V("getParentHandle", inst.id), !.rule = "tail"],
      Op("yield", inst.id), Op("noret", inst.id)>>

\* the general case, before the call: getCoroutine and, for a result, the
\* state pointer set to the return value buffer
RewriteGeneralBefore(cty, inst) ==
    <<Op("getCoroutine", inst.id)>>
    \o (IF cty # "void"
        THEN <<[Ins("bitcast", "", inst.id, V("coro.retvalAlloca", 0), NoVal) EXCEPT !.ty = "i8*"],
               Ins("setTaskStatePtr", "", inst.id, V("bitcast", inst.id), V("getCoroutine", inst.id))>>
        ELSE <<>>)
    \o <<[inst EXCEPT !.hdl = V("getCoroutine", inst.id), !.rule = "general"]>>

\* the general case without the yield after the call
RewriteGeneralAfterNoYield(cty, inst, used, ra) ==
    IF cty # "void" /\ used
    THEN <<[Ins("load", "", inst.id, V("coro.retvalAlloca", 0), NoVal) EXCEPT !.ty = ra]>>
    ELSE <<>>

\* the general case, after the call: yield and, for a used result, the load
RewriteGeneralAfter(cty, inst, used, ra) ==
    <<Op("yield", inst.id)>>
    \o (IF cty # "void" /\ used
        THEN <<[Ins("load", "", inst.id, V("coro.retvalAlloca", 0), NoVal) EXCEPT !.ty = ra]>>
        ELSE <<>>)

\* One block: pre is rewritten, rest is still to be visited, ra is the type of
\* retAlloc ("" while it is nil).
RECURSIVE RewriteIns(_, _, _, _, _)
RewriteIns(m, fty, pre, rest, ra) ==
    IF Len(rest) = 0 THEN [ins |-> pre, ra |-> ra]
    ELSE LET inst == Head(rest)
             after == Tail(rest)
         IN  IF ~(inst.op = "call" /\ inst.callee \in asyncFuncs)
             THEN RewriteIns(m, fty, Append(pre, inst), after, ra)
             ELSE LET cty == m[inst.callee].ret
                      next == Head(after)
                  IN  IF inst.callee \in nonReturning
                      THEN [ins |-> pre \o RewriteNoReturn(fty, inst), ra |-> ra]
                      ELSE IF IsTailCall(fty, cty, inst, next)
                      THEN RewriteIns(m, fty, pre \o RewriteTailCall(inst),
                                      <<IF cty # "void" THEN [next EXCEPT !.arg = Undef] ELSE next>>
                                        \o Tail(after),
                                      ra)
                      ELSE LET used == IsUsed(after, V("call", inst.id))
                               ra2 == IF cty # "void" /\ ra = "" THEN cty ELSE ra
                           IN  RewriteIns(m, fty,
                                          pre \o RewriteGeneralBefore(cty, inst)
                                              \o RewriteGeneralAfter(cty, inst, used, ra2),
                                          IF cty # "void" /\ used
                                          THEN Rauw(after, V("call", inst.id), V("load", inst.id))
                                          ELSE after,
                                          ra2)

RECURSIVE RewriteBlocks(_, _, _, _, _)
RewriteBlocks(m, fty, blocks, b, ra) ==
    IF b > Len(blocks) THEN [blocks |-> blocks, ra |-> ra]
    ELSE LET r == RewriteIns(m, fty, <<>>, blocks[b].ins, ra)
         IN  RewriteBlocks(m, fty, [blocks EXCEPT ![b].ins = r.ins], b + 1, r.ra)

\* instructions inserted before the first instruction of the entry block
AtEntry(blocks, ins) == [blocks EXCEPT ![1].ins = ins \o @]

RewriteCalls(m, f) ==
    LET r == RewriteBlocks(m, m[f].ret, m[f].blocks, 1, "")
    IN  [ret |-> m[f].ret,
         blocks |-> IF r.ra = "" THEN r.blocks
                    ELSE AtEntry(r.blocks, <<Typed("coro.retvalAlloca", 0, r.ra)>>)]

RewriteAsyncCalls ==
    /\ UNCHANGED <<execVars, input, taskVars>>
    /\ pc = "rewriteCalls"
    /\ fns' = [n \in DOMAIN fns |->
                IF n \in AsyncBodies THEN RewriteCalls(fns, n) ELSE fns[n]]
    /\ pc' = "ditchYields"
    /\ UNCHANGED <<hasYield, target, misuse, entry, worklist, asyncFuncs, asyncList,
                   needsScheduler, nonReturning, parentNotRequired, frames, err>>

(***************************************************************************)
(* markAsyncFunctions: ditch unnecessary tail yields (551-612)             *)
(***************************************************************************)
\* the next instruction is noret, or a return of a void function
Ditchable(fty, ins, i) ==
    \/ ins[i + 1].op = "noret"
    \/ ins[i + 1].op = "ret" /\ fty = "void"

\* we can only ditch a yield if we can ditch all yields
CanDitch(fn) ==
    /\ HasOp(fn, "yield")
    /\ \A b \in 1..Len(fn.blocks) : \A i \in 1..Len(fn.blocks[b].ins) :
            fn.blocks[b].ins[i].op = "yield" => Ditchable(fn.ret, fn.blocks[b].ins, i)

\* every yield is erased; noret is inserted where a return follows
DitchIns(ins) ==
    Flatten([i \in 1..Len(ins) |->
                IF ins[i].op = "yield"
                THEN IF ins[i + 1].op = "ret" THEN <<Op("noret", ins[i].id)>> ELSE <<>>
                ELSE <<ins[i]>>])

\* every yield that can be ditched is ditched, whatever the other yields are
DitchYieldsEach(fn) ==
    MapBlocks(fn, LAMBDA ins :
        Flatten([i \in 1..Len(ins) |->
                    IF ins[i].op = "yield" /\ Ditchable(fn.ret, ins, i)
                    THEN IF ins[i + 1].op = "ret" THEN <<Op("noret", ins[i].id)>> ELSE <<>>
                    ELSE <<ins[i]>>]))

DitchYields(fn) == IF CanDitch(fn) THEN MapBlocks(fn, DitchIns) ELSE fn

DitchTailYields ==
    /\ UNCHANGED <<execVars, input, taskVars>>
    /\ pc = "ditchYields"
    /\ fns' = [n \in DOMAIN fns |->
                IF n \in AsyncBodies THEN DitchYields(fns[n]) ELSE fns[n]]
    /\ pc' = "reactivate"
    /\ UNCHANGED <<hasYield, target, misuse, entry, worklist, asyncFuncs, asyncList,
                   needsScheduler, nonReturning, parentNotRequired, frames, err>>

(***************************************************************************)
(* markAsyncFunctions: generate return reactivations (614-670)             *)
(***************************************************************************)
\* the block has a return that no noret precedes
Reactivated(ins) ==
    LET i == FirstOp(ins, {"noret", "ret"})
    IN  i # 0 /\ ins[i].op = "ret"

\* the returns left as they are
ReactivateInsSkipped(fty, b, ins) == ins

\* store the result through retPtr, activate the parent, mark as noret; the
\* return itself stays
ReactivateIns(fty, b, ins) ==
    IF ~Reactivated(ins) THEN ins
    ELSE LET i == FirstOp(ins, {"noret", "ret"})
             inst == ins[i]
         IN  SubSeq(ins, 1, i - 1)
             \o (IF fty # "void"
                 THEN <<Ins("store", "", 100 + b, inst.arg, V("bitcast", 99))>>
                 ELSE <<>>)
             \o <<Op("getParentHandle", 100 + b),
                  OpArg("activateTask", 100 + b, V("getParentHandle", 100 + b)),
                  Op("noret", 100 + b),
                  IF fty # "void" THEN [inst EXCEPT !.arg = Undef] ELSE inst>>
             \o SubSeq(ins, i + 1, Len(ins))

\* the return pointer, got in the entry block
RetPtrPrelude ==
    <<Op("getParentHandle", 99),
      OpArg("getTaskStatePtr", 99, V("getParentHandle", 99)),
      Ins("bitcast", "retPtr", 99, V("getTaskStatePtr", 99), NoVal)>>

ReactivateReturns(fn) ==
    LET blocks == [b \in 1..Len(fn.blocks) |->
                      Block(fn.blocks[b].label, ReactivateIns(fn.ret, b, fn.blocks[b].ins))]
        any == \E b \in 1..Len(fn.blocks) : Reactivated(fn.blocks[b].ins)
    IN  [ret |-> fn.ret,
         blocks |-> IF any /\ fn.ret # "void" THEN AtEntry(blocks, RetPtrPrelude) ELSE blocks]

ReturnReactivation ==
    /\ UNCHANGED <<execVars, input, taskVars>>
    /\ pc = "reactivate"
    /\ fns' = [n \in DOMAIN fns |->
                IF n \in AsyncBodies THEN ReactivateReturns(fns[n]) ELSE fns[n]]
    /\ pc' = "frames"
    /\ UNCHANGED <<hasYield, target, misuse, entry, worklist, asyncFuncs, asyncList,
                   needsScheduler, nonReturning, parentNotRequired, frames, err>>

(***************************************************************************)
(* markAsyncFunctions: split blocks and add LLVM coroutine intrinsics      *)
(* (692-811)                                                               *)
(***************************************************************************)
\* no yields: getCoroutine is replaced with getParentHandle
NoFrameIns(ins) ==
    [i \in 1..Len(ins) |->
        LET x == ins[i]
            y == IF x.arg.k = "getCoroutine" THEN [x EXCEPT !.arg.k = "getParentHandle"] ELSE x
            z == IF y.hdl.k = "getCoroutine" THEN [y EXCEPT !.hdl.k = "getParentHandle"] ELSE y
        IN  IF z.op = "getCoroutine" THEN [z EXCEPT !.op = "getParentHandle"] ELSE z]

\* at the start of the function: the task state, the coroutine id, the frame
FramePrelude ==
    <<Ins("alloca", "task.state", 0, NoVal, NoVal),
      Ins("bitcast", "task.state.i8", 0, V("alloca", 0), NoVal),
      Ins("coro.id", "task.token", 0, V("bitcast", 0), NoVal),
      Ins("coro.size", "task.size", 0, NoVal, NoVal),
      Ins("alloc", "task.data", 0, V("coro.size", 0), NoVal),
      Ins("coro.begin", "task.handle", 0, V("alloc", 0), V("coro.id", 0))>>

\* Coroutine cleanup. Free resources associated with this coroutine.
CleanupBlock ==
    Block(CleanupLabel,
          <<Ins("coro.free", "task.data.free", 0, TaskHandle, V("coro.id", 0)),
            OpArg("free", 0, V("coro.free", 0)),
            Branch("br", NoVal, <<SuspendLabel>>)>>)

\* Coroutine suspend. A call to llvm.coro.suspend() will branch here.
SuspendBlock(fty) ==
    Block(SuspendLabel, <<OpArg("coro.end", 0, TaskHandle), RetOf(fty, Undef)>>)

\* a suspension point whose switch resumes into the cleanup block
SuspendPointSwapped(id, wakeup) ==
    <<Op("coro.suspend", id),
      Branch("switch", V("coro.suspend", id), <<SuspendLabel, CleanupLabel, wakeup>>)>>

\* llvm.coro.suspend and its switch: default suspend, 0 wakeup, 1 cleanup
SuspendPoint(id, wakeup) ==
    <<Op("coro.suspend", id),
      Branch("switch", V("coro.suspend", id), <<SuspendLabel, wakeup, CleanupLabel>>)>>

\* a yield becomes a suspension and a switch; what follows it is split off
\* into a wakeup block
RECURSIVE SplitAtYields(_, _)
SplitAtYields(label, ins) ==
    LET i == FirstOp(ins, {"yield"})
    IN  IF i = 0 THEN <<Block(label, ins)>>
        ELSE LET wakeup == <<"task.wakeup", ins[i].id>>
             IN  <<Block(label,
                         SubSeq(ins, 1, i - 1)
                         \o SuspendPoint(ins[i].id, wakeup))>>
                 \o SplitAtYields(wakeup, SubSeq(ins, i + 1, Len(ins)))

\* getCoroutine is replaced with the task handle; noret becomes a jump to the
\* cleanup block and is ditched with the instruction after it
RECURSIVE FrameIns(_)
FrameIns(ins) ==
    IF Len(ins) = 0 THEN <<>>
    ELSE LET x == Head(ins)
         IN  CASE x.op = "getCoroutine" -> FrameIns(Tail(ins))
               [] x.op = "noret" ->
                    <<Branch("br", NoVal, <<CleanupLabel>>)>> \o FrameIns(Tail(Tail(ins)))
               [] OTHER ->
                    LET y == IF x.arg.k = "getCoroutine" THEN [x EXCEPT !.arg = TaskHandle] ELSE x
                        z == IF y.hdl.k = "getCoroutine" THEN [y EXCEPT !.hdl = TaskHandle] ELSE y
                    IN  <<z>> \o FrameIns(Tail(ins))

InstallFrame(fn) ==
    IF ~HasOp(fn, "yield")
    THEN MapBlocks(fn, NoFrameIns)
    ELSE LET withPrelude == AtEntry(fn.blocks, FramePrelude)
             split == Flatten([b \in 1..Len(withPrelude) |->
                                  SplitAtYields(withPrelude[b].label, withPrelude[b].ins)])
             all == split \o <<CleanupBlock, SuspendBlock(fn.ret)>>
         IN  MapBlocks([ret |-> fn.ret, blocks |-> all], FrameIns)

InstallFrames ==
    /\ UNCHANGED <<execVars, input, taskVars>>
    /\ pc = "frames"
    /\ frames' = {f \in AsyncBodies : HasOp(fns[f], "yield")}
    /\ fns' = [n \in DOMAIN fns |->
                IF n \in AsyncBodies THEN InstallFrame(fns[n]) ELSE fns[n]]
    /\ pc' = "fixups"
    /\ UNCHANGED <<hasYield, target, misuse, entry, worklist, asyncFuncs, asyncList,
                   needsScheduler, nonReturning, parentNotRequired, err>>

(***************************************************************************)
(* markAsyncFunctions: the fix-ups of the whole module (813-885)           *)
(***************************************************************************)
\* getParentHandle is replaced with the parentHandle parameter
ParentHandleIns(ins) ==
    LET kept == SelectSeq(ins, LAMBDA x : x.op # "getParentHandle")
    IN  [i \in 1..Len(kept) |->
            LET x == kept[i]
                y == IF x.arg.k = "getParentHandle" THEN [x EXCEPT !.arg = ParentParam] ELSE x
            IN  IF y.hdl.k = "getParentHandle" THEN [y EXCEPT !.hdl = ParentParam] ELSE y]

\* the parent handle is used by something that is not a call of activateTask
\* every parent handle counted as needed
UsesNonActivateAlways(fn) == TRUE

UsesNonActivate(fn) ==
    \E x \in AllIns(fn) :
        \/ x.hdl = ParentParam
        \/ x.arg = ParentParam /\ x.op # "activateTask"

\* the noret markers left in place
EliminateNoretKept(ins) == ins

EliminateNoret(ins) == SelectSeq(ins, LAMBDA x : x.op # "noret")

FixUps ==
    /\ UNCHANGED <<execVars, input, taskVars>>
    /\ pc = "fixups"
    /\ IF \E n \in DOMAIN fns : HasOp(fns[n], "getCoroutine")
       THEN /\ err' = Error("bad use of getCoroutine", "")
            /\ pc' = "done"
            /\ UNCHANGED <<fns, parentNotRequired>>
       ELSE LET m == [n \in DOMAIN fns |-> MapBlocks(fns[n], ParentHandleIns)]
                pnr == {f \in AsyncBodies : ~UsesNonActivate(m[f])}
            IN  \E crash \in CrashChoices(m) :
                    LET r == LowerGo([n \in DOMAIN m |-> MapBlocks(m[n], EliminateNoret)],
                                     pnr, crash)
                    IN  /\ parentNotRequired' = pnr
                        /\ fns' = r.m
                        /\ err' = r.err
                        /\ pc' = IF r.err = NoErr THEN "callMain" ELSE "done"
    /\ UNCHANGED <<hasYield, target, misuse, entry, worklist, asyncFuncs, asyncList,
                   needsScheduler, nonReturning, frames>>

(***************************************************************************)
(* lowerCoroutines: the call of runtime.callMain (lines 181-211)           *)
(***************************************************************************)
\* getUses(callMain): the calls of runtime.callMain in the entry point
callMainUses == {i \in DOMAIN entry : entry[i].op = "callMain"}

\* a call of main.main whose parent handle is undef
realMainCallUndefParent(needs) ==
    <<Ins("call", "main", 0, Undef, Undef)>>
    \o (IF needs THEN <<Op("scheduler", 0)>> ELSE <<>>)

\* the call of main.main put in the place of the call of runtime.callMain, and
\* the call of the scheduler after it
realMainCall(needs) ==
    <<Op("getFakeCoroutine", 0),
      Ins("call", "main", 0, Undef, V("getFakeCoroutine", 0))>>
    \o (IF needs THEN <<Op("scheduler", 0)>> ELSE <<>>)

LowerCallMain ==
    /\ UNCHANGED <<execVars, input, taskVars>>
    /\ pc = "callMain"
    /\ IF Cardinality(callMainUses) # 1
       THEN /\ err' = Error("expected exactly 1 call of runtime.callMain", "")
            /\ entry' = entry
       ELSE /\ err' = err
            /\ entry' = realMainCall(needsScheduler)
    /\ pc' = "done"
    /\ UNCHANGED <<fns, hasYield, target, misuse, worklist, asyncFuncs, asyncList,
                   needsScheduler, nonReturning, parentNotRequired, frames>>

Next ==
    \/ Start
    \/ WorklistStep
    \/ DecideScheduler
    \/ MarkNonReturning
    \/ RewriteAsyncCalls
    \/ DitchTailYields
    \/ ReturnReactivation
    \/ InstallFrames
    \/ FixUps
    \/ LowerCallMain

Spec == Init /\ [][Next]_vars

\* The pass on the call graphs of testdata/callgraph.ll: main calls or starts
\* f, f calls g and may block, g blocks or calls f back.  The pass is a
\* sequential program that runs to its end: a step that can be taken is taken.
CallGraphStmts == {St("Y", ""), St("C", "g")}
CallGraphCallees == {<<St("C", "f")>>, <<St("Y", "")>>, <<St("Y", ""), St("C", "f")>>}

CallGraphModule(sts, gs, ms) ==
    [main |-> Body("void", Shape(1, ms, "ret", <<>>, "ret")),
     f |-> Body("void", Shape(1, sts, "ret", <<>>, "ret")),
     g |-> Body("void", Shape(1, gs, "ret", <<>>, "ret"))]

CallGraphInit ==
    /\ \E sts \in SeqUpTo(CallGraphStmts, MaxStmts), gs \in CallGraphCallees,
          ms \in MainMenu, t \in {"wasm", "avr", "other"} :
        /\ fns = CallGraphModule(sts, gs, ms)
        /\ input = CallGraphModule(sts, gs, ms)
        /\ target = t
    /\ hasYield = TRUE
    /\ misuse = NoMisuse
    /\ PassInit

CallGraphSpec ==
    /\ CallGraphInit
    /\ [][Next]_vars
    /\ WF_vars(Start)
    /\ WF_vars(WorklistStep)
    /\ WF_vars(DecideScheduler)

\* The pass on modules whose f awaits two callees, g and h, which return
\* values of types that may differ.
TwoTypes == {"i32", "i64"}
AwaitStmts == {St("U", "g"), St("U", "h"), St("C", "g"), St("C", "h"), St("O", "")}
CalleeBodies == {<<St("W", "")>>, <<>>}

RetvalModule(gty, gb, hty, hb, fty, sts) ==
    [main |-> Body("void", Shape(1, <<St("C", "f")>>, "ret", <<>>, "ret")),
     f |-> Body(fty, Shape(1, sts, "ret", <<>>, "ret")),
     g |-> Body(gty, Shape(1, gb, "ret", <<>>, "ret")),
     h |-> Body(hty, Shape(1, hb, "ret", <<>>, "ret"))]

RetvalInit ==
    /\ \E gty \in TwoTypes, hty \in TwoTypes, fty \in Types,
          gb \in CalleeBodies, hb \in CalleeBodies,
          sts \in SeqUpTo(AwaitStmts, MaxStmts),
          t \in {"wasm", "avr", "other"}, y \in BOOLEAN :
        /\ ModuleCallsYield(RetvalModule(gty, gb, hty, hb, fty, sts)) => y
        /\ fns = RetvalModule(gty, gb, hty, hb, fty, sts)
        /\ input = RetvalModule(gty, gb, hty, hb, fty, sts)
        /\ target = t
        /\ hasYield = y
        /\ misuse = NoMisuse
    /\ PassInit

RetvalSpec == RetvalInit /\ [][Next]_vars

\* the pass on modules whose go statement may lack the shape
SpawnInit == ModuleInit(MainMenu \cup BadSpawnMenu, TRUE) /\ PassInit

SpawnSpec == SpawnInit /\ [][Next]_vars

(***************************************************************************)
(* LowerGoroutines called once more, on the module a run has produced      *)
(* (lines 124-131): the locals of markAsyncFunctions start afresh, the     *)
(* module and the entry point are what the first run left.                 *)
(***************************************************************************)
LowerGoroutinesAgain ==
    /\ pc = "done" /\ err = NoErr
    /\ pc' = "start"
    /\ input' = fns
    /\ worklist' = <<>>
    /\ asyncFuncs' = {}
    /\ asyncList' = <<>>
    /\ needsScheduler' = FALSE
    /\ nonReturning' = {}
    /\ parentNotRequired' = {}
    /\ frames' = {}
    /\ UNCHANGED <<fns, hasYield, target, misuse, entry, err, execVars, taskVars>>

AgainNext == Next \/ LowerGoroutinesAgain

AgainSpec == Init /\ [][AgainNext]_vars

(***************************************************************************)
(* The lowered program run under the scheduler.  A call of a coroutine     *)
(* runs it on the caller's stack up to its first suspension; a suspended   *)
(* frame runs again when the scheduler resumes its handle, and the         *)
(* scheduler resumes a handle only after it has been activated.            *)
(***************************************************************************)
Fake == V("fake", 0)
IsTask(h) == h.k = "task"

\* an activation: function, block, instruction, its own task handle, its
\* parentHandle parameter, the await it started and has not yet suspended on,
\* the await it has been resumed from
Frame(fn, b, i, self, parent, wake) ==
    [fn |-> fn, b |-> b, i |-> i, self |-> self, parent |-> parent, await |-> 0, wake |-> wake]

Top == stack[Len(stack)]
Code(a) == IF a.fn = "" THEN entry ELSE fns[a.fn].blocks[a.b].ins
Cur == Code(Top)[Top.i]
At(ops) == pc = "run" /\ Cur.op \in ops

\* the handle an operand stands for in an activation
Eval(a, x) ==
    CASE x = TaskHandle -> a.self
      [] x = ParentParam -> a.parent
      [] x.k = "getFakeCoroutine" -> Fake
      [] x.k = "null" -> V("null", 0)
      [] OTHER -> Undef

BlockIndex(fn, label) == CHOOSE b \in 1..Len(fns[fn].blocks) : fns[fn].blocks[b].label = label

\* what the pass put at the start of the function
IsPrelude(x) ==
    /\ x.op \in {"alloca", "bitcast", "coro.id", "coro.size", "alloc", "coro.begin",
                 "getTaskStatePtr", "coro.retvalAlloca"}
    /\ x.id \in {0, 99}

\* the instruction a branch to the block goes to: the entry block of the input
\* stands for the loop header too, which the prelude is not part of
EnterAt(fn, b) ==
    LET ins == fns[fn].blocks[b].ins
    IN  IF b # 1 THEN 1
        ELSE CHOOSE i \in 1..Len(ins) :
                /\ ~IsPrelude(ins[i])
                /\ \A j \in 1..(i - 1) : IsPrelude(ins[j])

SetTop(a) == [stack EXCEPT ![Len(stack)] = a]
\* the running activation goes on to its next instruction
Advance == SetTop([Top EXCEPT !.i = @ + 1, !.await = 0, !.wake = 0])

\* the program starts: the entry point calls main.main and then the scheduler
Boot ==
    /\ pc = "done" /\ err = NoErr /\ needsScheduler
    /\ pc' = "run"
    /\ stack' = <<Frame("", 1, 1, NoVal, NoVal, 0)>>
    /\ UNCHANGED <<fns, hasYield, target, misuse, entry, worklist, asyncFuncs, asyncList,
                   needsScheduler, nonReturning, parentNotRequired, frames, err,
                   input, tasks, runq, waiting, taskVars>>

PassVars == <<fns, hasYield, target, misuse, entry, pc, worklist, asyncFuncs, asyncList,
              needsScheduler, nonReturning, parentNotRequired, frames, err, input>>

HandleArg(x) == x.arg \in {TaskHandle, ParentParam}

\* an instruction with no effect on control or on the scheduler
RunPlain ==
    /\ At({"alloca", "bitcast", "coro.id", "coro.size", "alloc", "coro.end", "coro.free",
           "getFakeCoroutine", "coro.retvalAlloca", "load", "store", "getTaskStatePtr",
           "setTaskStatePtr", "use"})
    /\ Cur.op = "use" => ~HandleArg(Cur)
    /\ stack' = Advance
    /\ UNCHANGED <<PassVars, taskVars, tasks, runq, waiting>>

\* a call: the callee runs on the stack of the caller, with the handle passed
\* as its parent; a general-case call starts an await
RunCall ==
    /\ At({"call"})
    /\ Len(stack) < MaxDepth
    /\ LET a == Top
           x == Cur
           b == [a EXCEPT !.await = IF x.rule = "general" THEN x.id ELSE 0, !.wake = 0]
       IN  /\ stack' = Append(SetTop(b), Frame(x.callee, 1, 1, NoVal, Eval(a, x.hdl), 0))
           /\ tasks' = IF x.rule = "general" /\ IsTask(a.self)
                       THEN [tasks EXCEPT ![a.self.n].reactivated = FALSE]
                       ELSE tasks
    /\ UNCHANGED <<PassVars, taskVars, runq, waiting>>

\* a return: the caller goes on after its call; the scheduler stays where it is
RunReturn ==
    /\ At({"ret"})
    /\ LET rest == SubSeq(stack, 1, Len(stack) - 1)
           c == rest[Len(rest)]
       IN  stack' = IF Code(c)[c.i].op = "call"
                    THEN [rest EXCEPT ![Len(rest)].i = @ + 1]
                    ELSE rest
    /\ UNCHANGED <<PassVars, taskVars, tasks, runq, waiting>>

\* a branch to one of its targets
RunBranch ==
    /\ At({"br"})
    /\ \E t \in {Cur.tgt[k] : k \in 1..Len(Cur.tgt)} :
          LET b == BlockIndex(Top.fn, t)
          IN  stack' = SetTop([Top EXCEPT !.b = b, !.i = EnterAt(Top.fn, b),
                                          !.await = 0, !.wake = 0])
    /\ UNCHANGED <<PassVars, taskVars, tasks, runq, waiting>>

FreeTasks == {n \in 1..MaxTasks : tasks[n].state = "free"}

\* llvm.coro.begin: the activation gets a frame and a task handle
RunCoroBegin ==
    /\ At({"coro.begin"})
    /\ FreeTasks # {}
    /\ LET n == CHOOSE k \in FreeTasks : \A j \in FreeTasks : k <= j
       IN  /\ tasks' = [tasks EXCEPT ![n] = [state |-> "running", fn |-> Top.fn, b |-> 0,
                                             parent |-> Top.parent, await |-> 0,
                                             reactivated |-> FALSE]]
           /\ stack' = SetTop([Top EXCEPT !.i = @ + 1, !.self = V("task", n)])
    /\ UNCHANGED <<PassVars, taskVars, runq, waiting>>

\* llvm.coro.suspend and its switch: the frame is suspended, to be resumed in
\* the wakeup block, and control goes to task.suspend
RunSuspend ==
    /\ At({"coro.suspend"})
    /\ LET a == Top
           sw == Code(a)[a.i + 1]
       IN  /\ tasks' = [tasks EXCEPT ![a.self.n] =
                           [@ EXCEPT !.state = "suspended",
                                     !.b = BlockIndex(a.fn, sw.tgt[2]),
                                     !.await = a.await]]
           /\ stack' = SetTop([a EXCEPT !.b = BlockIndex(a.fn, sw.tgt[1]), !.i = 1,
                                        !.await = 0, !.wake = 0])
    /\ UNCHANGED <<PassVars, taskVars, runq, waiting>>

\* free: the frame is released
RunFree ==
    /\ At({"free"})
    /\ tasks' = [tasks EXCEPT ![Top.self.n] = NoTask]
    /\ stack' = Advance
    /\ UNCHANGED <<PassVars, taskVars, runq, waiting>>

\* a blocking primitive hands a handle to the runtime, which will activate it
RunRegister ==
    /\ At({"use"})
    /\ HandleArg(Cur)
    /\ LET h == Eval(Top, Cur.arg)
       IN  waiting' = IF IsTask(h) THEN waiting \cup {h.n} ELSE waiting
    /\ stack' = Advance
    /\ UNCHANGED <<PassVars, taskVars, tasks, runq>>

\* the task is put on the run queue
Activate(h) ==
    /\ runq' = Append(runq, h)
    /\ tasks' = [tasks EXCEPT ![h].reactivated = TRUE]

\* activateTask: a nop for a handle that is no task
RunActivate ==
    /\ At({"activateTask"})
    /\ LET h == Eval(Top, Cur.arg)
       IN  IF IsTask(h) THEN Activate(h.n) ELSE UNCHANGED <<runq, tasks>>
    /\ stack' = Advance
    /\ UNCHANGED <<PassVars, taskVars, waiting>>

\* the scheduler resumes the first task of the run queue
RunScheduler ==
    /\ At({"scheduler"})
    /\ Len(runq) > 0
    /\ LET h == Head(runq)
           t == tasks[h]
       IN  /\ t.state = "suspended"
           /\ stack' = Append(stack, Frame(t.fn, t.b, 1, V("task", h), t.parent, t.await))
           /\ tasks' = [tasks EXCEPT ![h].state = "running", ![h].await = 0]
    /\ runq' = Tail(runq)
    /\ UNCHANGED <<PassVars, taskVars, waiting>>

\* the wakeup a task is registered for comes, while the scheduler runs
Wake ==
    /\ At({"scheduler"})
    /\ \E h \in waiting :
          /\ waiting' = waiting \ {h}
          /\ Activate(h)
    /\ UNCHANGED <<PassVars, taskVars, stack>>

\* the modules that are lowered in full and then run
ExecInit ==
    /\ Init
    /\ target = "wasm"
    /\ hasYield
    /\ misuse = NoMisuse
    /\ "resume" \notin DOMAIN fns

ExecNext ==
    \/ Next
    \/ Boot
    \/ RunPlain
    \/ RunCall
    \/ RunReturn
    \/ RunBranch
    \/ RunCoroBegin
    \/ RunSuspend
    \/ RunFree
    \/ RunRegister
    \/ RunActivate
    \/ RunScheduler
    \/ Wake

ExecSpec == ExecInit /\ [][ExecNext]_vars

\* The pass and the run on modules whose f registers for wakeups and calls g,
\* also as the last thing before its return.  The lowered program runs one
\* instruction after the other, the scheduler resumes the tasks of its run
\* queue, and a wakeup a task is registered for does come.
TailStmts == {St("W", ""), St("C", "g")}
TailCallees == {<<"void", <<St("W", "")>>>>, <<"void", <<>>>>}

TailInit ==
    /\ \E sts \in SeqUpTo(TailStmts, MaxStmts), g \in TailCallees, ms \in MainMenu :
        /\ fns = Module(g, "void", Shape(1, sts, "ret", <<>>, "ret"), ms, FALSE)
        /\ input = Module(g, "void", Shape(1, sts, "ret", <<>>, "ret"), ms, FALSE)
    /\ target = "wasm"
    /\ hasYield = TRUE
    /\ misuse = NoMisuse
    /\ PassInit

TailSpec ==
    /\ TailInit
    /\ [][ExecNext]_vars
    /\ WF_vars(RunPlain) /\ WF_vars(RunCall) /\ WF_vars(RunReturn) /\ WF_vars(RunBranch)
    /\ WF_vars(RunCoroBegin) /\ WF_vars(RunSuspend) /\ WF_vars(RunFree)
    /\ WF_vars(RunRegister) /\ WF_vars(RunActivate) /\ WF_vars(RunScheduler)
    /\ WF_vars(Wake)

(***************************************************************************)
(* The task package of the asyncify scheduler (package task).  A task is   *)
(* a pointer to a Task; ctl is the nesting of the code that runs, the      *)
(* running code last: the scheduler on the system stack, the calls of      *)
(* start and Resume, and the tasks they launched or rewound.  launch and   *)
(* rewind run the task until it pauses or completes and then return to     *)
(* their call site; unwind saves the stack of the task and returns there.  *)
(***************************************************************************)
nil == [task |-> 0]
NewTask(n) == [task |-> n]

Current == currentTask
OnSystemStack == Current = nil

Ctl(kind, t, prev, at) == [kind |-> kind, t |-> t, prev |-> prev, at |-> at]
Running == ctl[Len(ctl)]
InCode == Running.kind \in {"scheduler", "task"}

\* The running code is left: the code under it goes on after its call.
Returned(c) ==
    SubSeq(c, 1, Len(c) - 2) \o <<[c[Len(c) - 1] EXCEPT !.at = "after"]>>

\* The value start stores in currentTask once nothing of the task runs.
RestoredNil(frame) == nil
Restored(frame) == frame.prev

TaskInit ==
    /\ fns = <<>>
    /\ input = <<>>
    /\ hasYield = FALSE
    /\ target = "wasm"
    /\ misuse = NoMisuse
    /\ entry = <<>>
    /\ pc = "task"
    /\ worklist = <<>>
    /\ asyncFuncs = {}
    /\ asyncList = <<>>
    /\ needsScheduler = FALSE
    /\ nonReturning = {}
    /\ parentNotRequired = {}
    /\ frames = {}
    /\ err = NoErr
    /\ stack = <<>>
    /\ tasks = [n \in 1..MaxTasks |-> NoTask]
    /\ runq = <<>>
    /\ waiting = {}
    /\ currentTask = nil
    /\ ctl = <<Ctl("scheduler", nil, nil, "run")>>
    /\ tstate = [n \in 1..MaxTasks |-> "unused"]

\* start, up to the call of launch: a new task, prev := currentTask,
\* currentTask = t.
startCall ==
    /\ pc = "task" /\ InCode
    /\ \E n \in 1..MaxTasks :
        /\ tstate[n] = "unused"
        /\ tstate' = [tstate EXCEPT ![n] = "new"]
        /\ ctl' = Append(ctl, Ctl("start", NewTask(n), currentTask, "call"))
        /\ currentTask' = NewTask(n)
    /\ UNCHANGED <<PassVars, execVars>>

\* t.state.launch(): the entry function of the task runs on its own stack.
launch ==
    /\ pc = "task" /\ Running.kind = "start" /\ Running.at = "call"
    /\ ctl' = Append(ctl, Ctl("task", Running.t, nil, "run"))
    /\ tstate' = [tstate EXCEPT ![Running.t.task] = "running"]
    /\ UNCHANGED <<PassVars, execVars, currentTask>>

\* start, after launch has returned: currentTask = prev, and start returns.
startReturn ==
    /\ pc = "task" /\ Running.kind = "start" /\ Running.at = "after"
    /\ currentTask' = Restored(Running)
    /\ ctl' = Returned(ctl)
    /\ UNCHANGED <<PassVars, execVars, tstate>>

\* Pause, called by the code of a task: currentTask.state.unwind() saves the
\* stack in the state of currentTask and returns from launch or rewind.
Pause ==
    /\ pc = "task" /\ Running.kind = "task"
    /\ currentTask # nil
    /\ tstate' = [tstate EXCEPT ![currentTask.task] = "paused"]
    /\ ctl' = Returned(ctl)
    /\ UNCHANGED <<PassVars, execVars, currentTask>>

\* The entry function of the running task returns: launch or rewind returns.
taskDone ==
    /\ pc = "task" /\ Running.kind = "task"
    /\ tstate' = [tstate EXCEPT ![Running.t.task] = "done"]
    /\ ctl' = Returned(ctl)
    /\ UNCHANGED <<PassVars, execVars, currentTask>>

\* t.Resume(), called by the scheduler on a paused task, up to the call of
\* rewind: currentTask = t.
Resume ==
    /\ pc = "task" /\ Running.kind = "scheduler"
    /\ \E n \in 1..MaxTasks :
        /\ tstate[n] = "paused"
        /\ ctl' = Append(ctl, Ctl("Resume", NewTask(n), nil, "call"))
        /\ currentTask' = NewTask(n)
    /\ UNCHANGED <<PassVars, execVars, tstate>>

\* t.state.rewind(): the task goes on where it paused.
rewind ==
    /\ pc = "task" /\ Running.kind = "Resume" /\ Running.at = "call"
    /\ ctl' = Append(ctl, Ctl("task", Running.t, nil, "run"))
    /\ tstate' = [tstate EXCEPT ![Running.t.task] = "running"]
    /\ UNCHANGED <<PassVars, execVars, currentTask>>

\* Resume, after rewind has returned: currentTask = nil, and Resume returns.
ResumeReturn ==
    /\ pc = "task" /\ Running.kind = "Resume" /\ Running.at = "after"
    /\ currentTask' = nil
    /\ ctl' = Returned(ctl)
    /\ UNCHANGED <<PassVars, execVars, tstate>>

TaskNext ==
    \/ startCall
    \/ launch
    \/ startReturn
    \/ Pause
    \/ taskDone
    \/ Resume
    \/ rewind
    \/ ResumeReturn

TaskSpec == TaskInit /\ [][TaskNext]_vars

(***************************************************************************)
(* The properties of the pass and of the lowered program.                  *)
(***************************************************************************)
Count(fn, op) == Len(SelectSeq(InsSeq(fn), LAMBDA x : x.op = op))
BlocksOf(f) == {fns[f].blocks[b] : b \in 1..Len(fns[f].blocks)}
Finished == pc = "done" /\ err = NoErr
\* the worklist of markAsyncFunctions has run empty
WorklistDone == pc = "worklist" /\ Len(worklist) = 0

Lowered == {"yield", "getCoroutine", "getParentHandle", "noret"}
NoneLeft(ops) == \A f \in AsyncBodies : \A x \in AllIns(fns[f]) : x.op \notin ops

\* C1 as claimed: after every completed run of the pass, the short-circuits
\* included, no async function holds a call of yield, getCoroutine,
\* getParentHandle or noret.
C1_Original == Finished => NoneLeft(Lowered)

\* C1 as amended: the same after every completed run except the no-scheduler
\* short-circuit of a target that is not AVR, which leaves the async functions
\* as they were.
C1_NoPseudoCallsLeft == (Finished /\ (needsScheduler \/ target = "avr")) => NoneLeft(Lowered)

\* a full run that made a coroutine and left another async function without a frame
C1_Witness ==
    /\ Finished /\ needsScheduler
    /\ frames # {}
    /\ AsyncBodies \ frames # {}

\* the functions with a call of a member of S
CallersOf(m, S) ==
    {p \in DOMAIN m : \E x \in AllIns(m[p]) :
        \/ x.op = "yield" /\ "yield" \in S
        \/ x.op = "call" /\ x.callee \in S}

\* the smallest set that holds yield and every caller, outside excl, of a member
RECURSIVE SmallestClosed(_, _, _)
SmallestClosed(m, S, excl) ==
    LET T == S \cup (CallersOf(m, S) \ excl)
    IN  IF T = S THEN S ELSE SmallestClosed(m, T, excl)

\* C3 as claimed: asyncFuncs is the smallest set that holds yield and every
\* function with a call of a member, also when a function named resume calls
\* an async function.
C3_Original == WorklistDone => asyncFuncs = SmallestClosed(fns, {"yield"}, {})

\* C3 as amended: when the worklist has run empty, asyncFuncs is the smallest
\* set that holds yield and every function not named resume with a call of a
\* member; a go statement is no call.
C3_AsyncSetIsClosure == WorklistDone => asyncFuncs = SmallestClosed(fns, {"yield"}, {"resume"})

\* resume calls the async f and stays outside the set
C3_Witness ==
    /\ WorklistDone
    /\ "resume" \in DOMAIN fns
    /\ "f" \in asyncFuncs
    /\ "resume" \notin asyncFuncs

\* the step in which markAsyncFunctions settles needsScheduler
Decides == pc \in {"start", "worklist"} /\ pc' \in {"callMain", "nonReturning"}

\* C4 as claimed: needsScheduler is true iff a makeGoroutine spawns a member
\* of A or the target is the cooperative-only one, also without a yield
\* function and on AVR.
C4_Original ==
    [][Decides => (needsScheduler' <=> (SpawnsAsync \/ target = "wasm"))]_vars

\* C4 as amended: needsScheduler is true iff the module has a yield function
\* and the target is the cooperative-only one or, on a target that is not
\* AVR, a makeGoroutine spawns a member of A.
C4_NeedsScheduler ==
    [][Decides => (needsScheduler' <=>
                      (hasYield /\ (target = "wasm" \/ (target # "avr" /\ SpawnsAsync))))]_vars

\* on AVR go f() of an async f has been lowered without a scheduler
C4_Witness ==
    /\ pc = "callMain"
    /\ target = "avr"
    /\ "f" \in asyncFuncs
    /\ \E x \in AllIns(fns["main"]) : x.op = "call" /\ x.callee = "f" /\ x.hdl.k = "getFakeCoroutine"
    /\ ~needsScheduler

\* the return at i is preceded in its block by noret or by activateTask on the
\* parent handle
Marked(ins, i) ==
    \E j \in 1..(i - 1) :
        \/ ins[j].op = "noret"
        \/ ins[j].op = "activateTask" /\ ins[j].arg.k \in {"getParentHandle", "parentHandle"}

ReturnsMarked(blocks) ==
    \A blk \in blocks : \A i \in 1..Len(blk.ins) : blk.ins[i].op = "ret" => Marked(blk.ins, i)

\* C5 as claimed: once the frames are installed (the last point at which the
\* noret markers exist), every return of every async function, the one of the
\* task.suspend block included, is preceded in its block by noret or by
\* activateTask on the parent handle.
C5_Original ==
    pc = "fixups" => \A f \in AsyncBodies : ReturnsMarked(BlocksOf(f))

\* C5 as amended: after return reactivation and after frame installation every
\* return of an async function outside the synthetic task.suspend block is
\* preceded in its block by noret or by activateTask on the parent handle; the
\* return of task.suspend follows llvm.coro.end alone.
C5_ReturnsMarked ==
    /\ pc \in {"frames", "fixups"} =>
          \A f \in AsyncBodies : ReturnsMarked({blk \in BlocksOf(f) : blk.label # SuspendLabel})
    /\ pc = "fixups" =>
          \A f \in frames : \A blk \in BlocksOf(f) :
              blk.label = SuspendLabel => blk.ins = SuspendBlock(fns[f].ret).ins

\* a coroutine, and an async function without a frame whose return activates
\* the parent
C5_Witness ==
    /\ pc = "fixups"
    /\ frames # {}
    /\ \E f \in AsyncBodies \ frames : \E blk \in BlocksOf(f) :
          \E i \in 1..Len(blk.ins) : blk.ins[i].op = "activateTask"

\* every llvm.coro.suspend is followed by the switch: default the suspend
\* block, 0 the wakeup block (the next block), 1 the cleanup block
SwitchesOk(fn) ==
    \A b \in 1..Len(fn.blocks) : \A i \in 1..Len(fn.blocks[b].ins) :
        fn.blocks[b].ins[i].op = "coro.suspend" =>
            /\ i + 1 = Len(fn.blocks[b].ins)
            /\ fn.blocks[b].ins[i + 1].op = "switch"
            /\ fn.blocks[b].ins[i + 1].arg = ValOf(fn.blocks[b].ins[i])
            /\ b < Len(fn.blocks)
            /\ fn.blocks[b].ins[i + 1].tgt = <<SuspendLabel, fn.blocks[b + 1].label, CleanupLabel>>
            /\ fn.blocks[b + 1].label[1] = "task.wakeup"

CoroOps == {"coro.id", "coro.begin", "coro.end", "coro.free", "coro.suspend"}

\* C6: an async function with a yield at frame installation gets exactly one
\* llvm.coro.id, coro.begin, coro.end and coro.free, as many coro.suspend as it
\* had yields, each followed by the switch to suspend / wakeup / cleanup; and
\* it keeps them to the end of the pass.
C6_OneFramePerCoroutine ==
    [][/\ pc = "frames" =>
            \A f \in AsyncBodies : HasOp(fns[f], "yield") =>
                /\ \A op \in {"coro.id", "coro.begin", "coro.end", "coro.free"} :
                        Count(fns'[f], op) = 1
                /\ Count(fns'[f], "coro.suspend") = Count(fns[f], "yield")
                /\ SwitchesOk(fns'[f])
       /\ pc \in {"fixups", "callMain"} =>
            \A f \in AsyncBodies : \A op \in CoroOps : Count(fns'[f], op) = Count(fns[f], op)]_vars

\* a coroutine with two suspension points
C6_Witness ==
    /\ pc = "fixups"
    /\ \E f \in frames : Count(fns[f], "coro.suspend") = 2

IsAsyncCall(x) == x.op = "call" /\ x.callee \in asyncFuncs

\* C7 as claimed: after call-site rewriting every call from an async function
\* to an async function is immediately followed by a yield or is an optimized
\* tail call, also when the callee is non-returning.
C7_Original ==
    pc = "ditchYields" =>
        \A f \in AsyncBodies : \A blk \in BlocksOf(f) : \A i \in 1..Len(blk.ins) :
            IsAsyncCall(blk.ins[i]) =>
                \/ blk.ins[i + 1].op = "yield"
                \/ blk.ins[i].rule = "tail"

\* C7 as amended: after call-site rewriting every call from an async function
\* to an async function is immediately followed by a yield (an optimized tail
\* call too), or it is a call of a non-returning callee, which is followed by
\* noret and a return that ends the block.
C7_CallShapes ==
    pc = "ditchYields" =>
        \A f \in AsyncBodies : \A blk \in BlocksOf(f) : \A i \in 1..Len(blk.ins) :
            IsAsyncCall(blk.ins[i]) =>
                \/ blk.ins[i + 1].op = "yield"
                \/ /\ blk.ins[i].callee \in nonReturning
                   /\ blk.ins[i].hdl = Undef
                   /\ blk.ins[i + 1].op = "noret"
                   /\ blk.ins[i + 2].op = "ret"
                   /\ Len(blk.ins) = i + 2

\* a call of a non-returning callee, and an awaited call
C7_Witness ==
    /\ pc = "ditchYields"
    /\ \E f \in AsyncBodies : \E x \in AllIns(fns[f]) : x.rule = "noreturn"
    /\ \E f \in AsyncBodies : \E x \in AllIns(fns[f]) : x.rule \in {"general", "tail"}

Find(ins, op, id) == SelectSeq(ins, LAMBDA x : x.op = op /\ x.id = id)
IndexOf(ins, op, id) == CHOOSE i \in 1..Len(ins) : ins[i].op = op /\ ins[i].id = id

\* the tail call at i has the shape the optimization gives it
TailShape(ins, i) ==
    /\ i > 1 /\ ins[i - 1].op = "getParentHandle"
    /\ ins[i].hdl = ValOf(ins[i - 1])
    /\ ins[i + 1].op = "yield"
    /\ ins[i + 2].op = "noret"
    /\ ins[i + 3].op = "ret" /\ ins[i + 3].arg.k \in {"void", "undef"}
    /\ Find(ins, "setTaskStatePtr", ins[i].id) = <<>>
    /\ Find(ins, "getCoroutine", ins[i].id) = <<>>
    /\ Find(ins, "load", ins[i].id) = <<>>

\* C10: a call of an async callee that is not non-returning gets the tail call
\* optimization exactly when a return follows it, caller and callee return the
\* same type, and the return is void or returns the call's result; then the
\* callee gets getParentHandle(), yield and noret follow the call, no buffer
\* is published for it, and its return gets no activateTask and no store.
C10_TailCall ==
    [][/\ pc = "rewriteCalls" =>
            \A f \in AsyncBodies : \A b \in 1..Len(fns[f].blocks) :
                LET old == fns[f].blocks[b].ins
                    new == fns'[f].blocks[b].ins
                IN  \A i \in 1..Len(old) :
                        (IsAsyncCall(old[i]) /\ old[i].callee \notin nonReturning
                            /\ Find(new, "call", old[i].id) # <<>>) =>
                            LET j == IndexOf(new, "call", old[i].id)
                            IN  /\ new[j].rule = "tail" <=>
                                    /\ old[i + 1].op = "ret"
                                    /\ fns[old[i].callee].ret = fns[f].ret
                                    /\ \/ old[i + 1].arg.k = "void"
                                       \/ old[i + 1].arg = ValOf(old[i])
                                /\ new[j].rule = "tail" => TailShape(new, j)
                                /\ new[j].rule \in {"tail", "general"}
       /\ pc \in {"ditchYields", "reactivate"} =>
            \A f \in AsyncBodies : \A blk \in {fns'[f].blocks[b] : b \in 1..Len(fns'[f].blocks)} :
                (\E x \in {blk.ins[i] : i \in 1..Len(blk.ins)} : x.rule = "tail") =>
                    \A i \in 1..Len(blk.ins) : blk.ins[i].op \notin {"activateTask", "store"}]_vars

\* a tail call that returned the callee's result, after return reactivation
C10_Witness ==
    /\ pc = "frames"
    /\ \E f \in AsyncBodies : \E blk \in BlocksOf(f) : \E i \in 1..Len(blk.ins) :
          /\ blk.ins[i].rule = "tail"
          /\ fns[f].ret # "void"
          /\ blk.ins[Len(blk.ins)].op = "ret"
          /\ blk.ins[Len(blk.ins)].arg = Undef

\* the returns of c that are not handed to a tail callee store the result
\* through the state pointer of the parent and then activate the parent
ReturnsStore(c) ==
    /\ \E x \in AllIns(fns[c]) : x.op = "getTaskStatePtr" /\ x.arg = ParentParam
    /\ \A blk \in BlocksOf(c) :
          \/ blk.label \in {CleanupLabel, SuspendLabel}
          \/ blk.ins[Len(blk.ins)].op \notin {"ret", "br"}
          \/ blk.ins[Len(blk.ins)].op = "br" /\ blk.ins[Len(blk.ins)].tgt # <<CleanupLabel>>
          \/ \E i \in 1..Len(blk.ins) : blk.ins[i].rule \in {"tail", "noreturn"}
          \/ \E k \in 2..Len(blk.ins) :
                /\ blk.ins[k].op = "activateTask" /\ blk.ins[k].arg = ParentParam
                /\ blk.ins[k - 1].op = "store" /\ blk.ins[k - 1].hdl = V("bitcast", 99)

\* C9: at the end of the full pass, for every general-case call of f with a
\* callee c that returns a value: setTaskStatePtr on the task handle of f's
\* own frame, with f's buffer, precedes the call; the suspension point the
\* yield became follows the call immediately; no use of the call's result is
\* left and its load opens the wakeup block; every return of c stores through
\* getTaskStatePtr(parent) and then activates the parent.
C9_AwaitWithResult ==
    (Finished /\ needsScheduler) =>
        \A f \in AsyncBodies : \A b \in 1..Len(fns[f].blocks) :
            LET ins == fns[f].blocks[b].ins
            IN  \A i \in 1..Len(ins) :
                    (ins[i].rule = "general" /\ fns[ins[i].callee].ret # "void") =>
                        /\ f \in frames
                        /\ \E j \in 1..(i - 1) :
                              /\ ins[j].op = "setTaskStatePtr" /\ ins[j].id = ins[i].id
                              /\ ins[j].hdl = TaskHandle
                              /\ ins[j].arg = V("bitcast", ins[i].id)
                        /\ ins[i + 1].op = "coro.suspend"
                        /\ \A x \in AllIns(fns[f]) : x.arg # ValOf(ins[i])
                        /\ \A c \in 1..Len(fns[f].blocks) : \A k \in 1..Len(fns[f].blocks[c].ins) :
                              LET x == fns[f].blocks[c].ins[k]
                              IN  (x.op = "load" /\ x.id = ins[i].id) => (c = b + 1 /\ k = 1)
                        /\ ReturnsStore(ins[i].callee)

\* C9, the part that holds: the same for the callers that keep a frame
C9_AwaitWithResultInCoroutine ==
    (Finished /\ needsScheduler) =>
        \A f \in frames : \A b \in 1..Len(fns[f].blocks) :
            LET ins == fns[f].blocks[b].ins
            IN  \A i \in 1..Len(ins) :
                    (ins[i].rule = "general" /\ fns[ins[i].callee].ret # "void") =>
                        /\ \E j \in 1..(i - 1) :
                              /\ ins[j].op = "setTaskStatePtr" /\ ins[j].id = ins[i].id
                              /\ ins[j].hdl = TaskHandle
                        /\ ins[i + 1].op = "coro.suspend"
                        /\ \A x \in AllIns(fns[f]) : x.arg # ValOf(ins[i])
                        /\ ReturnsStore(ins[i].callee)

\* the caller lost its yields and publishes its buffer on the handle of its parent
C9_Diverges ==
    /\ Finished /\ needsScheduler
    /\ \E f \in AsyncBodies \ frames : \E blk \in BlocksOf(f) : \E i \in 2..Len(blk.ins) :
          /\ blk.ins[i].rule = "general"
          /\ blk.ins[i - 1].op = "setTaskStatePtr" /\ blk.ins[i - 1].hdl = ParentParam
          /\ blk.ins[i + 1].op = "ret"

\* the running activation is past an await only if it suspended on it and its
\* task has been reactivated since the await began
AwaitHonoured(a) ==
    /\ a.await # 0 => Code(a)[a.i].op = "coro.suspend"
    /\ a.wake # 0 => (IsTask(a.self) /\ tasks[a.self.n].reactivated)

\* C2: in the lowered program run under the scheduler, the instructions of f
\* after an await (a general-case call) run only once f has suspended and its
\* handle has been reactivated; the return of the callee never reaches f by
\* falling through the call.
C2_AwaitSuspends == pc = "run" => AwaitHonoured(Top)

\* C2, the part that holds: the same for the callers that keep a frame
C2_AwaitSuspendsInCoroutine == (pc = "run" /\ Top.fn \in frames) => AwaitHonoured(Top)

\* a caller without a frame goes on to its return while the callee it awaits
\* is suspended and has reactivated nobody
C2_Diverges ==
    /\ pc = "run"
    /\ Top.await # 0
    /\ Top.fn \notin frames
    /\ Cur.op = "ret"
    /\ \E n \in 1..MaxTasks :
          /\ tasks[n].state = "suspended"
          /\ tasks[n].fn = Code(Top)[Top.i - 1].callee
          /\ tasks[n].parent = Top.parent

\* a caller resumed after the callee it awaited has reactivated it
C2_Resumed ==
    /\ pc = "run"
    /\ Top.wake # 0
    /\ tasks[Top.self.n].reactivated

\* the scheduler finds only suspended tasks on the run queue
RunQueueSuspended ==
    (pc = "run" /\ Cur.op = "scheduler" /\ Len(runq) > 0) => tasks[Head(runq)].state = "suspended"

\* the classification of 4.3: calls yield, not getCoroutine, no other member of A
ClassifiedNonReturning ==
    {f \in AsyncBodies : /\ HasOp(fns[f], "yield")
                         /\ ~HasOp(fns[f], "getCoroutine")
                         /\ \A x \in AllIns(fns[f]) : x.op = "call" => x.callee \notin asyncFuncs}

\* after call rewriting a call of a non-returning callee has an undef handle
\* and is followed by noret and the return that ends the block
NoReturnCallsCut ==
    \A f \in AsyncBodies : \A blk \in {fns'[f].blocks[b] : b \in 1..Len(fns'[f].blocks)} :
        \A i \in 1..Len(blk.ins) :
            (blk.ins[i].op = "call" /\ blk.ins[i].callee \in nonReturning) =>
                /\ blk.ins[i].hdl = Undef
                /\ Len(blk.ins) = i + 2
                /\ blk.ins[i + 1].op = "noret"
                /\ blk.ins[i + 2].op = "ret"

\* C11: f is marked non-returning iff it calls yield, does not call
\* getCoroutine and calls no other member of A; a call of a non-returning
\* callee gets an undef handle and the rest of its block becomes noret and a
\* return; a non-returning function keeps no yield and never activates its
\* parent.
C11_NonReturning ==
    [][/\ pc = "nonReturning" => nonReturning' = ClassifiedNonReturning
       /\ pc = "rewriteCalls" => NoReturnCallsCut
       /\ pc' \in {"rewriteCalls", "ditchYields", "reactivate", "frames", "fixups", "callMain"} =>
            \A f \in nonReturning' : \A x \in AllIns(fns'[f]) :
                x.op \notin {"yield", "coro.suspend", "activateTask"}]_vars

\* C11, the part that holds: the classification, the cut after the calls, and
\* no yield kept
C11_NonReturningKeepsNoYield ==
    [][/\ pc = "nonReturning" => nonReturning' = ClassifiedNonReturning
       /\ pc = "rewriteCalls" => NoReturnCallsCut
       /\ pc' \in {"rewriteCalls", "ditchYields", "reactivate", "frames", "fixups", "callMain"} =>
            \A f \in nonReturning' : \A x \in AllIns(fns'[f]) :
                x.op \notin {"yield", "coro.suspend"}]_vars

\* a non-returning f with a path that does not yield: that path activates the
\* parent handle, for which the caller passes undef
C11_Diverges ==
    /\ Finished /\ needsScheduler
    /\ "f" \in nonReturning
    /\ \E x \in AllIns(fns["f"]) : x.op = "activateTask" /\ x.arg = ParentParam
    /\ \E x \in AllIns(fns["main"]) : x.op = "call" /\ x.callee = "f" /\ x.hdl = Undef

(***************************************************************************)
(* The run without blocking operations.                                    *)
(***************************************************************************)
NoYieldRun == Finished /\ ~hasYield
NoFrames == frames = {} /\ \A f \in DOMAIN fns : \A x \in AllIns(fns[f]) : x.op \notin CoroOps
MainCalls == {i \in DOMAIN entry : entry[i].op = "call" /\ entry[i].callee = "main"}

\* C12 as claimed: when the module has no yield function the pass reports that
\* no scheduler is needed, builds no frame, and replaces the call of callMain
\* by one direct call of main whose context argument and parent handle are
\* both undef, with no call of the scheduler.
C12_Original ==
    NoYieldRun =>
        /\ ~needsScheduler
        /\ NoFrames
        /\ \A i \in DOMAIN entry : entry[i].op \notin {"callMain", "scheduler"}
        /\ Cardinality(MainCalls) = 1
        /\ \A i \in MainCalls : entry[i].arg = Undef /\ entry[i].hdl = Undef

\* C12: when the module has no yield function the pass reports that no
\* scheduler is needed, builds no frame, and replaces the call of callMain by
\* a call of getFakeCoroutine and one direct call of main whose context
\* argument is undef and whose parent handle is the fake coroutine, with no
\* call of the scheduler.
C12_NoYieldShortCircuit ==
    NoYieldRun =>
        /\ ~needsScheduler
        /\ NoFrames
        /\ asyncFuncs = {}
        /\ entry = <<Op("getFakeCoroutine", 0),
                     Ins("call", "main", 0, Undef, V("getFakeCoroutine", 0))>>

\* a finished run on a module without yield, whose main started a goroutine
C12_Witness ==
    /\ NoYieldRun
    /\ HasOp(input["main"], "makeGoroutine")
    /\ Cardinality(MainCalls) = 1

(***************************************************************************)
(* Goroutines started without a scheduler.                                 *)
(***************************************************************************)
SpawnOps == {"makeGoroutine", "inttoptr", "icall"}
\* main started f as a goroutine, f is not async and no scheduler is needed
PlainSpawn ==
    /\ Finished
    /\ ~needsScheduler
    /\ \E x \in AllIns(input["main"]) : x.op = "makeGoroutine" /\ x.callee = "f"
    /\ "f" \notin asyncFuncs
CallsOfF == {x \in AllIns(fns["main"]) : x.op = "call" /\ x.callee = "f"}
SpawnReplaced ==
    /\ \A x \in AllIns(fns["main"]) : x.op \notin SpawnOps
    /\ Count(fns["main"], "call") = 1
    /\ Cardinality(CallsOfF) = 1
    /\ \A i \in DOMAIN entry : entry[i].op # "scheduler"

YieldLoop ==
    /\ Finished
    /\ \E x \in AllIns(input["main"]) : x.op = "makeGoroutine" /\ x.callee = "f"
    /\ HasOp(input["f"], "yield")
    /\ \A x \in AllIns(input["f"]) : x.op \notin {"ret", "call"}
    /\ \A n \in DOMAIN input \ {"f"} : \A x \in AllIns(input[n]) :
          x.op # "yield" /\ (x.op = "call" => x.callee # "f")
SchedulerStarted ==
    entry = <<Op("getFakeCoroutine", 0),
              Ins("call", "main", 0, Undef, V("getFakeCoroutine", 0)),
              Op("scheduler", 0)>>

\* C14 as claimed: when main starts an f that calls yield in a loop, the async
\* set is {f, yield}, a scheduler is needed, f is turned into a coroutine, the
\* lowered start passes the fake coroutine (not null) as parent handle, and
\* the entry point calls main(undef, getFakeCoroutine()) and then the scheduler.
C14_Original ==
    YieldLoop =>
        /\ asyncFuncs = {"f", "yield"}
        /\ needsScheduler
        /\ "f" \in frames /\ HasOp(fns["f"], "coro.begin")
        /\ Cardinality(CallsOfF) = 1
        /\ \A x \in CallsOfF : x.hdl = V("getFakeCoroutine", x.id)
        /\ SchedulerStarted

\* C14: when main starts an f that calls yield in a loop, the async set is
\* {f, yield}.  On AVR no scheduler is needed.  On the other targets a
\* scheduler is needed, the entry point calls main(undef, getFakeCoroutine())
\* and then the scheduler, the lowered start passes null as parent handle (f
\* never uses it), and f is turned into a coroutine exactly when it registers
\* for a wakeup with getCoroutine: otherwise it is non-returning, its yields
\* are replaced by a return and it gets no frame.
C14_YieldLoop ==
    YieldLoop =>
        /\ asyncFuncs = {"f", "yield"}
        /\ needsScheduler = (target # "avr")
        /\ target # "avr" =>
              /\ SchedulerStarted
              /\ Cardinality(CallsOfF) = 1
              /\ \A x \in CallsOfF : x.hdl = V("null", 0)
              /\ "f" \in parentNotRequired
              /\ "f" \in frames <=> HasOp(input["f"], "getCoroutine")
              /\ "f" \in nonReturning <=> ~HasOp(input["f"], "getCoroutine")
              /\ "f" \in frames <=> HasOp(fns["f"], "coro.begin")
              /\ "f" \in nonReturning => ~HasOp(fns["f"], "coro.suspend")

\* f registers for a wakeup and yields in a loop: it became a coroutine and is
\* started with a null parent handle
C14_Witness ==
    /\ YieldLoop
    /\ HasOp(input["f"], "getCoroutine")
    /\ "f" \in frames
    /\ \E x \in CallsOfF : x.hdl = V("null", 0)

(***************************************************************************)
(* The pass run a second time.                                             *)
(***************************************************************************)
\* a run of the pass on a module whose call of runtime.callMain is gone
SecondRun == callMainUses = {}

\* C15: no step of a second run of the pass, on the module a first successful
\* run has produced, changes the module or the entry point, and the second run
\* ends without a failure.
C15_SecondRunNoOp ==
    [][(SecondRun /\ pc # "done") =>
          (fns' = fns /\ entry' = entry /\ err' = NoErr)]_vars

\* the part of C15 that holds: the second run of markAsyncFunctions leaves the
\* functions and the entry point as they are
C15_SecondRunKeepsModule ==
    [][(SecondRun /\ pc # "done") => (fns' = fns /\ entry' = entry)]_vars

\* a second run has ended in the panic of lowerCoroutines
C15_Diverges ==
    /\ SecondRun
    /\ pc = "done"
    /\ err.msg = "expected exactly 1 call of runtime.callMain"
    /\ fns = input

(***************************************************************************)
(* Misuse of an async function.                                            *)
(***************************************************************************)
\* uses that are not calls of the function and that the worklist does not skip
BadUses == {"store", "bitcast", "arg", "ptrtoint"}

\* C16: once a function with a use that is not a call of it (a store, a
\* constant bitcast that has uses, an argument of a call, a ptrtoint used by
\* something else than makeGoroutine) has been added to the async set, the
\* pass has ended with an error that names this function, and no instruction
\* of the module or of the entry point has been changed.
C16_MisuseIsError ==
    (misuse.fn \in asyncFuncs /\ misuse.kind \in BadUses) =>
        /\ pc = "done"
        /\ err # NoErr
        /\ err.fn = misuse.fn
        /\ err.msg \in {"incorrectly used in ptrtoint", "used as function pointer",
                         "used as function pointer in"}
        /\ fns = input
        /\ entry = <<Op("callMain", 0)>>
        /\ ~needsScheduler

\* g, reached by propagation from f, is passed as an argument of a call
C16_Witness ==
    /\ misuse = [fn |-> "g", kind |-> "arg"]
    /\ {"f", "g"} \subseteq asyncFuncs
    /\ err = Error("used as function pointer in", "g")

(***************************************************************************)
(* Go statements that lack the shape.                                      *)
(***************************************************************************)
\* the failures of the pass that are panics or crashes, not returned errors
Panics == {"bad use of getCoroutine",
           "expected exactly 1 call of runtime.callMain",
           "expected const ptrtoint operand of runtime.makeGoroutine",
           Crash.msg}
ReturnedError == err # NoErr /\ err.msg \notin Panics
\* the pass has ended on a module whose go statement lacks the shape, and not
\* in a failure that has another cause
BadSpawnRun ==
    /\ pc = "done"
    /\ OperandNotFunction(input) \/ SpawnShapeError(input) # NoErr
    /\ err.msg # "bad use of getCoroutine"

\* C17: whenever a makeGoroutine call lacks the shape (operand not a constant
\* ptrtoint of a function, or not exactly one inttoptr use with exactly one
\* call use), the pass ends with a returned error, not with a panic, on every
\* target and with or without a scheduler.
C17_BadSpawnIsError == BadSpawnRun => ReturnedError

\* the part of C17 that holds: a makeGoroutine result without the one inttoptr
\* use, or an inttoptr without the one call use, is a returned error on every
\* target
C17_UseCountIsError ==
    (BadSpawnRun /\ ~OperandNotFunction(input)) =>
        /\ ReturnedError
        /\ err = SpawnShapeError(input)

\* the scheduler decision has panicked on the operand of makeGoroutine
C17_Diverges ==
    /\ BadSpawnRun
    /\ OperandNotFunction(input)
    /\ target = "other"
    /\ err.msg = "expected const ptrtoint operand of runtime.makeGoroutine"
    /\ fns = input

(***************************************************************************)
(* Tail yields.                                                            *)
(***************************************************************************)
\* the yield at ins[i] is followed by noret, or by the return of a void function
FollowedByExit(fn, ins, i) ==
    \/ ins[i + 1].op = "noret"
    \/ ins[i + 1].op = "ret" /\ fn.ret = "void"
AllYieldsAtExit(fn) ==
    \A blk \in {fn.blocks[b] : b \in 1..Len(fn.blocks)} : \A i \in 1..Len(blk.ins) :
        blk.ins[i].op = "yield" => FollowedByExit(fn, blk.ins, i)
\* the yields of the block that a return follows directly
YieldsBeforeRet(ins) == {i \in 1..Len(ins) : ins[i].op = "yield" /\ ins[i + 1].op = "ret"}
Without(ins, ops) == SelectSeq(ins, LAMBDA x : x.op \notin ops)
\* new is old with every yield erased and a noret in the place of each yield
\* that a return followed
YieldsDitched(old, new) ==
    /\ Len(new.blocks) = Len(old.blocks)
    /\ new.ret = old.ret
    /\ \A b \in 1..Len(old.blocks) :
        LET o == old.blocks[b].ins
            n == new.blocks[b].ins
        IN  /\ new.blocks[b].label = old.blocks[b].label
            /\ \A i \in 1..Len(n) : n[i].op # "yield"
            /\ Without(n, {"noret"}) = Without(o, {"yield", "noret"})
            /\ Len(Without(n, {"yield"})) = Len(Without(o, {"yield"})) + Cardinality(YieldsBeforeRet(o))
            /\ \A i \in YieldsBeforeRet(o) :
                  \E j \in 1..(Len(n) - 1) :
                      /\ n[j] = Op("noret", o[i].id)
                      /\ n[j + 1] = o[i + 1]

\* C18: the step that ditches tail yields erases all yields of an async
\* function whose yields are all followed by noret or, the function being
\* void, by a return, and puts a noret in the place of each erased yield that
\* a return followed; it leaves a function with a yield not so followed, a
\* function without a yield and a function that is not async as they are.
C18_AllOrNothing ==
    [][pc = "ditchYields" =>
          \A f \in DOMAIN fns :
              IF f \in AsyncBodies /\ HasOp(fns[f], "yield") /\ AllYieldsAtExit(fns[f])
              THEN YieldsDitched(fns[f], fns'[f])
              ELSE fns'[f] = fns[f]]_vars

\* f had a wakeup and a yield before its return, and the yield has been
\* ditched for a noret
C18_Witness ==
    /\ pc = "reactivate"
    /\ "f" \in asyncFuncs \ nonReturning
    /\ HasOp(input["f"], "yield")
    /\ ~HasOp(fns["f"], "yield")
    /\ HasOp(fns["f"], "noret")

(***************************************************************************)
(* The return-value buffer.                                                *)
(***************************************************************************)
CallsRewritten == pc \in {"ditchYields", "reactivate", "frames", "fixups", "callMain", "done"}
\* the general-case callsites of fn with a callee that returns a value
ValueCallsites(fn) ==
    {x \in AllIns(fn) : x.op = "call" /\ x.rule = "general" /\ fns[x.callee].ret # "void"}
Buffers(fn) == {x \in AllIns(fn) : x.op = "coro.retvalAlloca"}
\* the loads of the results of general-case calls
RetvalLoads(fn) == {x \in AllIns(fn) : x.op = "load" /\ x.arg = V("coro.retvalAlloca", 0)}
CallOfLoad(fn, ld) == CHOOSE x \in AllIns(fn) : x.op = "call" /\ x.id = ld.id
\* at most one buffer, in the entry block, and every general-case callsite
\* with a result hands its address to setTaskStatePtr
OneSharedBuffer(fn) ==
    /\ Cardinality(Buffers(fn)) <= 1
    /\ Count(fn, "coro.retvalAlloca") <= 1
    /\ \A x \in Buffers(fn) : \E i \in 1..Len(fn.blocks[1].ins) : fn.blocks[1].ins[i] = x
    /\ ValueCallsites(fn) # {} => Cardinality(Buffers(fn)) = 1
    /\ \A x \in ValueCallsites(fn) :
          \E s \in AllIns(fn), c \in AllIns(fn) :
              /\ s.op = "setTaskStatePtr" /\ s.id = x.id /\ s.arg = V("bitcast", x.id)
              /\ c.op = "bitcast" /\ c.id = x.id /\ c.arg = V("coro.retvalAlloca", 0)

\* C19: after call rewriting an async caller has at most one return-value
\* buffer, in its entry block, which all its general-case callsites with a
\* result share, and the value loaded after the yield of such a callsite has
\* the return type of the callee of that callsite.
C19_LoadAtCalleeType ==
    (CallsRewritten /\ err = NoErr) =>
        \A f \in AsyncBodies :
            /\ OneSharedBuffer(fns[f])
            /\ \A ld \in RetvalLoads(fns[f]) :
                  ld.ty = fns[CallOfLoad(fns[f], ld).callee].ret

\* the part of C19 that holds: one shared buffer in the entry block, and every
\* load has the type of the buffer, which is the return type of the callee of
\* the first general-case callsite with a result
C19_LoadAtBufferType ==
    (CallsRewritten /\ err = NoErr) =>
        \A f \in AsyncBodies :
            /\ OneSharedBuffer(fns[f])
            /\ \A ld \in RetvalLoads(fns[f]) : \A buf \in Buffers(fns[f]) : ld.ty = buf.ty

\* f awaits g and h, which return different types, and the result of the
\* second call is loaded at the type of the first
C19_Diverges ==
    /\ Finished
    /\ fns["g"].ret # fns["h"].ret
    /\ Cardinality(ValueCallsites(fns["f"])) = 2
    /\ \E ld \in RetvalLoads(fns["f"]) :
          ld.ty # fns[CallOfLoad(fns["f"], ld).callee].ret

(***************************************************************************)
(* Termination of the worklist.                                            *)
(***************************************************************************)
NoDuplicates(q) == \A i \in 1..Len(q) : \A j \in 1..Len(q) : q[i] = q[j] => i = j
WorklistLeft == pc \notin {"start", "worklist"}

\* C20: the worklist loop of markAsyncFunctions comes to an end on every
\* module, also when functions call each other in a cycle and when a function
\* is pushed more than once because it calls several async functions, and no
\* function is ever in asyncList twice.
C20_WorklistTerminates ==
    /\ [](NoDuplicates(asyncList) /\ Len(asyncList) = Cardinality(asyncFuncs))
    /\ <>WorklistLeft

\* f and g call each other, f was pushed twice, and the worklist has run empty
C20_Witness ==
    /\ WorklistDone
    /\ \E x \in AllIns(input["f"]) : x.op = "call" /\ x.callee = "g"
    /\ \E x \in AllIns(input["g"]) : x.op = "call" /\ x.callee = "f"
    /\ HasOp(input["f"], "yield")
    /\ {"main", "f", "g", "yield"} \subseteq asyncFuncs
    /\ Len(asyncList) = 4

(***************************************************************************)
(* Release of the coroutine frames.                                        *)
(***************************************************************************)
ToCleanup(x) == x.op = "br" /\ x.tgt = <<CleanupLabel>>
\* the activation of task n runs and is at the branch to task.cleanup that
\* stands in the place of a noret: it has come to a return
AtReturn(n) ==
    /\ pc = "run"
    /\ tasks[n].state = "running"
    /\ Top.self = V("task", n)
    /\ ToCleanup(Cur)
\* task n is suspended at the yield that follows a tail call: its wakeup block
\* is the branch to task.cleanup
AtTailYield(n) ==
    /\ pc = "run"
    /\ tasks[n].state = "suspended"
    /\ ToCleanup(fns[tasks[n].fn].blocks[tasks[n].b].ins[1])
Released(n) == tasks[n].state = "free"

\* C21: in the run of the lowered program, a coroutine frame whose activation
\* has come to a reactivated return, or to the yield and noret after a tail
\* call, is eventually released by the free of task.cleanup.
C21_FrameReleased ==
    \A n \in 1..MaxTasks : (AtReturn(n) \/ AtTailYield(n)) ~> Released(n)

\* the part of C21 that holds: a frame whose activation has come to a
\* reactivated return is eventually released
C21_ReturnReleases ==
    \A n \in 1..MaxTasks : AtReturn(n) ~> Released(n)

\* the program has come to rest in the scheduler, with nothing to run and no
\* wakeup to come, and the frame of f is still suspended after its tail call
C21_Diverges ==
    /\ pc = "run"
    /\ Cur.op = "scheduler"
    /\ Len(stack) = 1
    /\ runq = <<>>
    /\ waiting = {}
    /\ \E n \in 1..MaxTasks : AtTailYield(n) /\ tasks[n].fn = "f"

(***************************************************************************)
(* The handle a return-value buffer is published on.                       *)
(***************************************************************************)
\* the setTaskStatePtr calls of f that publish the buffer of f
Publications(f) ==
    {x \in AllIns(fns[f]) :
        /\ x.op = "setTaskStatePtr"
        /\ \E c \in AllIns(fns[f]) :
              c.op = "bitcast" /\ x.arg = V("bitcast", c.id) /\ c.arg = V("coro.retvalAlloca", 0)}

\* C22: after the full pass, every setTaskStatePtr that publishes the
\* return-value buffer of a function f names the task handle of the frame of
\* f, and f has a frame; the handle is never the parentHandle of f.
C22_PublishedOnOwnFrame ==
    (Finished /\ needsScheduler) =>
        \A f \in AsyncBodies : \A x \in Publications(f) :
            /\ f \in frames
            /\ HasOp(fns[f], "coro.begin")
            /\ x.hdl = TaskHandle
            /\ x.hdl # ParentParam

\* the part of C22 that holds: a function that keeps a frame publishes its
\* buffer on the task handle of that frame
C22_PublishedOnOwnFrameInCoroutine ==
    (Finished /\ needsScheduler) =>
        \A f \in frames : \A x \in Publications(f) : x.hdl = TaskHandle

\* f has no frame and no suspension left, and publishes the buffer of its own
\* stack on the handle of its parent before it calls g and returns
C22_Diverges ==
    /\ Finished /\ needsScheduler
    /\ "f" \notin frames
    /\ ~HasOp(fns["f"], "coro.suspend")
    /\ HasOp(fns["f"], "coro.retvalAlloca")
    /\ \E x \in Publications("f") : x.hdl = ParentParam
    /\ \E x \in AllIns(fns["f"]) : x.op = "call" /\ x.callee = "g" /\ x.hdl = ParentParam

(***************************************************************************)
(* C23: the current task of the asyncify task package.                     *)
(***************************************************************************)
\* The task whose code called the i-th entry of ctl, nil for the scheduler.
CallerTask(i) == IF ctl[i - 1].kind = "task" THEN ctl[i - 1].t ELSE nil

\* C23: in the task package, for every nesting of start (called by the
\* scheduler or by a running task) and Resume (called by the scheduler),
\* Current() is the task whose code runs as long as its launch or rewind
\* lasts, Current() is nil whenever the scheduler runs, the value start saved
\* before the launch, which it restores when it returns, is the task of its
\* caller, and OnSystemStack() holds exactly when Current() is nil.
C23_CurrentIsRunningTask ==
    pc = "task" =>
        /\ Running.kind = "task" => Current = Running.t /\ Current # nil
        /\ Running.kind = "scheduler" => Current = nil
        /\ \A i \in 2..Len(ctl) :
             ctl[i].kind = "start" => Restored(ctl[i]) = CallerTask(i)
        /\ OnSystemStack <=> Current = nil
        /\ InCode => (OnSystemStack <=> Running.kind = "scheduler")

\* Witness: a task that the scheduler resumed has called start, the new task
\* has paused or completed, start has returned, and the resumed task runs on
\* as the current task.
C23_Witness ==
    /\ pc = "task"
    /\ Len(ctl) = 3
    /\ ctl[2].kind = "Resume"
    /\ Running.kind = "task" /\ Running.at = "after"
    /\ Current = Running.t
    /\ ~OnSystemStack
====
